---- MODULE Spec2Model ----
(***************************************************************************)
(* A model of contact-mcp: the guarded query builders (query.py,           *)
(* transaction.py), the allowlist guard (guardrails.py), the database-type *)
(* router (config.py) and the tool handlers that execute the built         *)
(* statements (tools.py).                                                  *)
(*                                                                         *)
(* Python values are tagged records: None, ints, strings, lists, tuples,   *)
(* sets and dicts (a dict is its sequence of <<key, value>> items in       *)
(* insertion order).  SQL is the text the builders produce; TLC strings    *)
(* concatenate with \o and are read with Len/SubSeq.  One tool call is in  *)
(* flight at a time and a handler advances one backend call per step, so   *)
(* that a backend error can end it between two statements.                 *)
(***************************************************************************)
EXTENDS Integers, Sequences, FiniteSets, TLC

VARIABLES
    pc,         \* position of the call in flight ("idle" when there is none)
    args,       \* the tool called and its arguments
    loc,        \* the handler's locals that live across backend calls
    log,        \* statements executed on the backends by the call in flight
    result,     \* what the call returned or raised
    campaigns,  \* campaign rows committed in the Oracle config database
    tx          \* rows committed in LVOUSR.TRANSACTION of the dialing databases

vars == <<pc, args, loc, log, result, campaigns, tx>>

---------------------------------------------------------------------------
(* Python values *)

None == [k |-> "none"]
I(n) == [k |-> "int", v |-> n]
S(s) == [k |-> "str", v |-> s]
L(items) == [k |-> "list", v |-> items]
T(items) == [k |-> "tuple", v |-> items]
D(items) == [k |-> "dict", v |-> items]

IsNone(x) == x.k = "none"
IsInt(x) == x.k = "int"
IsStr(x) == x.k = "str"
IsMapping(x) == x.k = "dict"
\* isinstance(x, (list, tuple))
IsListOrTuple(x) == x.k \in {"list", "tuple"}
\* isinstance(x, (list, tuple, set))
IsListTupleOrSet(x) == x.k \in {"list", "tuple", "set"}

\* Python truthiness: `if x`, `not x`
Truthy(x) ==
    CASE x.k = "none" -> FALSE
      [] x.k = "int" -> x.v # 0
      [] x.k = "str" -> x.v # ""
      [] OTHER -> Len(x.v) > 0

\* dict: keys(), `key in d`, d[key], d.get(key), d[key] = value
Keys(d) == [i \in 1..Len(d.v) |-> d.v[i][1]]
HasKey(d, key) == \E i \in 1..Len(d.v) : d.v[i][1] = key
Get(d, key) ==
    IF HasKey(d, key)
    THEN d.v[CHOOSE i \in 1..Len(d.v) : d.v[i][1] = key][2]
    ELSE None
SetItem(d, key, value) ==
    IF HasKey(d, key)
    THEN D([i \in 1..Len(d.v) |->
              IF d.v[i][1] = key THEN <<key, value>> ELSE d.v[i]])
    ELSE D(Append(d.v, <<key, value>>))

\* str(x) of the values used as operators
Str(x) ==
    CASE x.k = "str" -> x.v
      [] x.k = "int" -> ToString(x.v)
      [] x.k = "none" -> "None"
      [] OTHER -> "<" \o x.k \o ">"

---------------------------------------------------------------------------
(* Python string methods *)

LowerLetters == "abcdefghijklmnopqrstuvwxyz"
UpperLetters == "ABCDEFGHIJKLMNOPQRSTUVWXYZ"

\* position of the one-character string c in s, 0 when absent
IndexIn(c, s) ==
    IF \E i \in 1..Len(s) : SubSeq(s, i, i) = c
    THEN CHOOSE i \in 1..Len(s) :
            /\ SubSeq(s, i, i) = c
            /\ \A j \in 1..(i - 1) : SubSeq(s, j, j) # c
    ELSE 0

\* the letters as one-character strings, each with its other case
ToUpper ==
    [c \in {SubSeq(LowerLetters, i, i) : i \in 1..26} |->
        SubSeq(UpperLetters, IndexIn(c, LowerLetters), IndexIn(c, LowerLetters))]
ToLower ==
    [c \in {SubSeq(UpperLetters, i, i) : i \in 1..26} |->
        SubSeq(LowerLetters, IndexIn(c, UpperLetters), IndexIn(c, UpperLetters))]

UpperChar(c) == IF c \in DOMAIN ToUpper THEN ToUpper[c] ELSE c
LowerChar(c) == IF c \in DOMAIN ToLower THEN ToLower[c] ELSE c

RECURSIVE upper(_)
upper(s) == IF s = "" THEN "" ELSE UpperChar(Head(s)) \o upper(Tail(s))

RECURSIVE lower(_)
lower(s) == IF s = "" THEN "" ELSE LowerChar(Head(s)) \o lower(Tail(s))

IsSpace(c) == c \in {" ", "\t", "\n"}

RECURSIVE lstrip(_)
lstrip(s) ==
    IF s # "" /\ IsSpace(Head(s)) THEN lstrip(Tail(s)) ELSE s

RECURSIVE rstrip(_)
rstrip(s) ==
    IF s # "" /\ IsSpace(SubSeq(s, Len(s), Len(s)))
    THEN rstrip(SubSeq(s, 1, Len(s) - 1))
    ELSE s

strip(s) == lstrip(rstrip(s))

\* `sub in s`
Contains(s, sub) ==
    \E i \in 1..(Len(s) - Len(sub) + 1) : SubSeq(s, i, i + Len(sub) - 1) = sub

\* sep.join(parts)
RECURSIVE join(_, _)
join(sep, parts) ==
    IF Len(parts) = 0 THEN ""
    ELSE IF Len(parts) = 1 THEN parts[1]
    ELSE join(sep, SubSeq(parts, 1, Len(parts) \div 2)) \o sep
            \o join(sep, SubSeq(parts, Len(parts) \div 2 + 1, Len(parts)))

\* s.split(): the maximal runs of non-whitespace characters
RECURSIVE SplitFrom(_, _)
SplitFrom(s, word) ==
    IF s = "" THEN (IF word = "" THEN <<>> ELSE <<word>>)
    ELSE IF IsSpace(Head(s))
         THEN (IF word = "" THEN <<>> ELSE <<word>>) \o SplitFrom(Tail(s), "")
         ELSE SplitFrom(Tail(s), word \o Head(s))

split(s) == SplitFrom(s, "")

---------------------------------------------------------------------------
(* Outcomes of a builder or validator: a value, or a raised exception *)

Ok(value) == [ok |-> TRUE, value |-> value]
Raise(exc, msg) == [ok |-> FALSE, exc |-> exc, msg |-> msg]
\* the statements after a call that may raise: they run on its value, and an
\* exception it raises propagates
Try(r, F(_)) == IF r.ok THEN F(r.value) ELSE r

---------------------------------------------------------------------------
(* guardrails.py *)

ALLOWED_SELECT_TABLES == {"client", "contact", "contact_details", "campaign"}
ALLOWED_INSERT_TABLES == {"campaign", "transaction"}
REDACTED_COLUMNS ==
    {"ssn", "dob", "password", "password_hash", "api_key", "secret", "token"}
CAMPAIGN_REQUIRED_COLUMNS == {"client_id"}
CAMPAIGN_INSERT_COLUMNS ==
    { "client_id", "filename", "start_time", "end_time", "leave_messages",
      "operator_phone", "callback_phone", "caller_id", "voice_id", "b_active",
      "skill_id", "dialing_strategy_id", "am_option", "campaign_type_id",
      "contact_source", "email_from", "campaign_subtype" }
valid_am_options == {"DONT_LEAVE_MESSAGES", "LEAVE_MESSAGES", "NO_AM"}
valid_contact_sources == {"CAMPAIGN", "CONTACT"}

\* validate_table(table): the table is a non-empty string on the SELECT allowlist
validate_table(table) ==
    IF ~Truthy(table) \/ ~IsStr(table)
    THEN Raise("GuardrailError", "Table name must be a non-empty string")
    ELSE IF lower(table.v) \notin ALLOWED_SELECT_TABLES
    THEN Raise("GuardrailError", "not allowed for SELECT")
    ELSE Ok(None)

\* QueryLimits
MAX_ROWS == 10000
DEFAULT_LIMIT == 100
MAX_OFFSET == 100000

\* validate_limit that hands back any positive limit as it is
validate_limit_uncapped(limit) ==
    IF IsNone(limit) THEN Ok(I(DEFAULT_LIMIT))
    ELSE IF ~IsInt(limit) \/ limit.v < 1
    THEN Raise("GuardrailError", "Limit must be a positive integer")
    ELSE Ok(limit)

\* validate_limit(limit)
validate_limit(limit) ==
    IF IsNone(limit) THEN Ok(I(DEFAULT_LIMIT))
    ELSE IF ~IsInt(limit) \/ limit.v < 1
    THEN Raise("GuardrailError", "Limit must be a positive integer")
    ELSE Ok(I(IF limit.v < MAX_ROWS THEN limit.v ELSE MAX_ROWS))

\* validate_offset without the upper bound
validate_offset_unbounded(offset) ==
    IF IsNone(offset) THEN Ok(I(0))
    ELSE IF ~IsInt(offset) \/ offset.v < 0
    THEN Raise("GuardrailError", "Offset must be a non-negative integer")
    ELSE Ok(offset)

\* validate_offset(offset)
validate_offset(offset) ==
    IF IsNone(offset) THEN Ok(I(0))
    ELSE IF ~IsInt(offset) \/ offset.v < 0
    THEN Raise("GuardrailError", "Offset must be a non-negative integer")
    ELSE IF offset.v > MAX_OFFSET
    THEN Raise("GuardrailError", "Offset exceeds maximum allowed value")
    ELSE Ok(offset)

\* the value put in the place of a sensitive one
REDACTED == S("***REDACTED***")

\* redact_row that only knows the lower-case spelling of a column
redact_row_exact_case(row) ==
    D([i \in 1..Len(row.v) |->
         <<row.v[i][1],
           IF row.v[i][1] \in REDACTED_COLUMNS THEN REDACTED ELSE row.v[i][2]>>])

\* redact_row(row)
redact_row(row) ==
    D([i \in 1..Len(row.v) |->
         <<row.v[i][1],
           IF lower(row.v[i][1]) \in REDACTED_COLUMNS
           THEN REDACTED ELSE row.v[i][2]>>])

\* redact_results(rows)
redact_results(rows) == L([i \in 1..Len(rows.v) |-> redact_row(rows.v[i])])

\* `x in valid` for a fixed set of strings: a value of another type is not in it
InStrings(x, valid) == IsStr(x) /\ x.v \in valid

\* validate_campaign_insert without the check of the provided columns
validate_campaign_insert_any_column(data) ==
    IF ~IsMapping(data) \/ ~Truthy(data)
    THEN Raise("GuardrailError", "Campaign data must be a non-empty dictionary")
    ELSE IF ~HasKey(data, "client_id")
    THEN Raise("GuardrailError", "Missing required columns for campaign")
    ELSE IF ~IsInt(Get(data, "client_id")) \/ Get(data, "client_id").v < 1
    THEN Raise("GuardrailError", "client_id must be a positive integer")
    ELSE IF ~IsNone(Get(data, "am_option"))
            /\ ~InStrings(Get(data, "am_option"), valid_am_options)
    THEN Raise("GuardrailError", "am_option must be one of")
    ELSE IF ~IsNone(Get(data, "contact_source"))
            /\ ~InStrings(Get(data, "contact_source"), valid_contact_sources)
    THEN Raise("GuardrailError", "contact_source must be one of")
    ELSE Ok(None)

\* validate_campaign_insert(data)
validate_campaign_insert(data) ==
    IF ~IsMapping(data) \/ ~Truthy(data)
    THEN Raise("GuardrailError", "Campaign data must be a non-empty dictionary")
    ELSE
    LET keys == {Keys(data)[i] : i \in 1..Len(data.v)}
        provided == {lower(key) : key \in keys}
        client_id == Get(data, "client_id")
        am_option == Get(data, "am_option")
        contact_source == Get(data, "contact_source")
    IN  IF CAMPAIGN_REQUIRED_COLUMNS \ keys # {}
        THEN Raise("GuardrailError", "Missing required columns for campaign")
        ELSE IF provided \ CAMPAIGN_INSERT_COLUMNS # {}
        THEN Raise("GuardrailError", "Columns not allowed for campaign insert")
        ELSE IF ~IsInt(client_id) \/ client_id.v < 1
        THEN Raise("GuardrailError", "client_id must be a positive integer")
        ELSE IF ~IsNone(am_option) /\ ~InStrings(am_option, valid_am_options)
        THEN Raise("GuardrailError", "am_option must be one of")
        ELSE IF ~IsNone(contact_source)
                /\ ~InStrings(contact_source, valid_contact_sources)
        THEN Raise("GuardrailError", "contact_source must be one of")
        ELSE Ok(None)

---------------------------------------------------------------------------
(* config.py *)

\* get_db_type(db_link): "postgres" when the link holds "stg4b", else "oracle"
\* a classifier that sends every link to Oracle
get_db_type_oracle_only(db_link) == "oracle"

\* a classifier that looks for the marker as it is written
get_db_type_case_sensitive(db_link) ==
    IF Truthy(db_link) /\ Contains(db_link.v, "stg4b") THEN "postgres"
    ELSE "oracle"

get_db_type(db_link) ==
    IF ~Truthy(db_link) THEN "oracle"
    ELSE IF Contains(lower(db_link.v), "stg4b") THEN "postgres"
    ELSE "oracle"

---------------------------------------------------------------------------
(* query.py: the Postgres builders of select_records and count_records *)

CONTACT_COLUMNS ==
    { "lvaccount_id", "client_id", "account", "b_active", "account_to_speak",
      "first_name", "last_name", "dob", "email_address", "ssn", "phone1",
      "phone2", "phone3", "phone4", "phone5", "phone6", "phone7", "phone8",
      "phone9", "phone10", "address1", "address2", "city", "state",
      "postalcode", "country_id", "guarantor_firstname", "guarantor_lastname",
      "paymentbalance", "amount_to_speak", "account_due_date",
      "callattemptstoday", "callattemptslifetime", "createdate", "createuser",
      "modifydate", "modifyuser", "initial_load_date",
      "initial_load_campaignid", "last_load_date", "last_load_campaignid",
      "do_not_dial", "do_not_dial_daily", "group_id", "original_account_number",
      "phone1_attempts_today", "phone1_attempts_lifetime", "phone1_dnd",
      "phone1_dnd_daily", "phone2_attempts_today", "phone2_attempts_lifetime",
      "phone2_dnd", "phone2_dnd_daily", "phone3_attempts_today",
      "phone3_attempts_lifetime", "phone3_dnd", "phone3_dnd_daily",
      "phone4_attempts_today", "phone4_attempts_lifetime", "phone4_dnd",
      "phone4_dnd_daily", "phone5_attempts_today", "phone5_attempts_lifetime",
      "phone5_dnd", "phone5_dnd_daily", "phone6_attempts_today",
      "phone6_attempts_lifetime", "phone6_dnd", "phone6_dnd_daily",
      "phone7_attempts_today", "phone7_attempts_lifetime", "phone7_dnd",
      "phone7_dnd_daily", "phone8_attempts_today", "phone8_attempts_lifetime",
      "phone8_dnd", "phone8_dnd_daily", "phone9_attempts_today",
      "phone9_attempts_lifetime", "phone9_dnd", "phone9_dnd_daily",
      "phone10_attempts_today", "phone10_attempts_lifetime", "phone10_dnd",
      "phone10_dnd_daily", "sms", "email", "phone1_sms_consent",
      "phone1_cell_consent", "phone2_sms_consent", "phone2_cell_consent",
      "phone3_sms_consent", "phone3_cell_consent", "phone4_sms_consent",
      "phone4_cell_consent", "phone5_sms_consent", "phone5_cell_consent",
      "phone6_sms_consent", "phone6_cell_consent", "phone7_sms_consent",
      "phone7_cell_consent", "phone8_sms_consent", "phone8_cell_consent",
      "phone9_sms_consent", "phone9_cell_consent", "phone10_sms_consent",
      "phone10_cell_consent", "primary_email_consent", "agent_id",
      "agent_team_id", "description", "department", "salutation", "title",
      "happiness_index", "happiness_trend", "happiness_ndx_updated" }

CONTACT_DETAILS_BASE == {"lvaccount_id", "client_id", "account"}
CONTACT_DETAILS_COLUMNS ==
    CONTACT_DETAILS_BASE \cup {"col" \o ToString(i) : i \in 1..100}

\* TABLES: logical table -> (physical table, allowed columns)
\* TABLES with one more entry, a table outside the SELECT allowlist
TABLES_with_transaction ==
    [ contact |-> [name |-> "lvousr.contact", allowed |-> CONTACT_COLUMNS],
      contact_details |-> [name |-> "lvousr.contact_details",
                           allowed |-> CONTACT_DETAILS_COLUMNS],
      transaction |-> [name |-> "lvousr.transaction",
                       allowed |-> {"client_id", "outcome", "account"}] ]

TABLES ==
    [ contact |-> [name |-> "lvousr.contact", allowed |-> CONTACT_COLUMNS],
      contact_details |-> [name |-> "lvousr.contact_details",
                           allowed |-> CONTACT_DETAILS_COLUMNS] ]

\* a filter entry's operator and operand: only a mapping with an "op" key
\* names an operator here, any other value is compared for equality
FilterOp(value) ==
    IF IsMapping(value) /\ HasKey(value, "op")
    THEN [op |-> lower(Str(Get(value, "op"))), operand |-> Get(value, "value")]
    ELSE [op |-> "eq", operand |-> value]

Placeholders(n) == join(", ", [i \in 1..n |-> "%s"])

\* the clause and parameters of one filter entry (the if/elif chain)
FilterClause(column, op, operand) ==
    CASE op \in {"eq", "="} ->
            Ok([sql |-> column \o " = %s", params |-> <<operand>>])
      [] op \in {"neq", "!="} ->
            Ok([sql |-> column \o " <> %s", params |-> <<operand>>])
      [] op = "gt" -> Ok([sql |-> column \o " > %s", params |-> <<operand>>])
      [] op = "gte" -> Ok([sql |-> column \o " >= %s", params |-> <<operand>>])
      [] op = "lt" -> Ok([sql |-> column \o " < %s", params |-> <<operand>>])
      [] op = "lte" -> Ok([sql |-> column \o " <= %s", params |-> <<operand>>])
      [] op = "like" ->
            Ok([sql |-> column \o " LIKE %s", params |-> <<operand>>])
      [] op = "not_like" ->
            Ok([sql |-> column \o " NOT LIKE %s", params |-> <<operand>>])
      [] op = "ilike" ->
            Ok([sql |-> column \o " ILIKE %s", params |-> <<operand>>])
      [] op = "not_ilike" ->
            Ok([sql |-> column \o " NOT ILIKE %s", params |-> <<operand>>])
      [] op \in {"in", "not_in"} ->
            IF ~IsListTupleOrSet(operand) \/ ~Truthy(operand)
            THEN Raise("ValueError", op \o " operator requires a non-empty list")
            ELSE Ok([sql |-> column \o (IF op = "in" THEN " IN" ELSE " NOT IN")
                              \o " (" \o Placeholders(Len(operand.v)) \o ")",
                     params |-> operand.v])
      [] op = "between" ->
            IF ~IsListOrTuple(operand) \/ Len(operand.v) # 2
            THEN Raise("ValueError", "between operator requires a list of two values")
            ELSE Ok([sql |-> column \o " BETWEEN %s AND %s",
                     params |-> <<operand.v[1], operand.v[2]>>])
      [] op = "is_null" -> Ok([sql |-> column \o " IS NULL", params |-> <<>>])
      [] op = "is_not_null" ->
            Ok([sql |-> column \o " IS NOT NULL", params |-> <<>>])
      [] OTHER -> Raise("ValueError", "Unsupported filter operator: " \o op)

\* the loop of _validate_filters over the entries still to translate, given
\* the clauses and parameters collected so far
RECURSIVE FilterLoop(_, _, _, _, _)
\* a loop body that puts each new clause in front of the ones collected
FilterEntry_prepending(table, items, table_alias, clauses, params, key, fo) ==
    IF key \notin TABLES[table].allowed
    THEN Raise("ValueError", "Invalid filter column for " \o table \o ": " \o key)
    ELSE Try(FilterClause(IF table_alias # "" THEN table_alias \o "." \o key
                          ELSE key,
                          fo.op, fo.operand),
             LAMBDA clause :
                FilterLoop(table, Tail(items), table_alias,
                           <<clause.sql>> \o clauses, clause.params \o params))

\* one entry of the loop: the column check, the entry's clause, the next entry
FilterEntry(table, items, table_alias, clauses, params, key, fo) ==
    IF key \notin TABLES[table].allowed
    THEN Raise("ValueError", "Invalid filter column for " \o table \o ": " \o key)
    ELSE Try(FilterClause(IF table_alias # "" THEN table_alias \o "." \o key
                          ELSE key,
                          fo.op, fo.operand),
             LAMBDA clause :
                FilterLoop(table, Tail(items), table_alias,
                           Append(clauses, clause.sql), params \o clause.params))

FilterLoop(table, items, table_alias, clauses, params) ==
    IF Len(items) = 0
    THEN Ok([sql |-> " WHERE " \o join(" AND ", clauses), params |-> params])
    ELSE FilterEntry(table, items, table_alias, clauses, params,
                     items[1][1], FilterOp(items[1][2]))

\* query._validate_filters(table, filters, table_alias) -> (sql, params)
\* (table_alias "" stands for None)
query_validate_filters(table, filters, table_alias) ==
    IF ~Truthy(filters) THEN Ok([sql |-> "", params |-> <<>>])
    ELSE FilterLoop(table, filters.v, table_alias, <<>>, <<>>)

\* _validate_columns without the allowlist check: every name passes
query_validate_columns_unchecked(table, columns) ==
    IF ~Truthy(columns) THEN Ok(<<"*">>)
    ELSE Ok([i \in 1..Len(columns.v) |-> strip(columns.v[i].v)])

\* query._validate_columns(table, columns) -> list of column names
query_validate_columns(table, columns) ==
    IF ~Truthy(columns) THEN Ok(<<"*">>)
    ELSE
    LET normalized == [i \in 1..Len(columns.v) |-> strip(columns.v[i].v)]
        invalid == {i \in 1..Len(normalized) :
                        normalized[i] \notin TABLES[table].allowed}
    IN  IF invalid # {}
        THEN Raise("ValueError", "Invalid columns for " \o table)
        ELSE Ok(normalized)

\* query._validate_order_by(table, order_by) -> " ORDER BY col DIR" or ""
query_validate_order_by(table, order_by) ==
    IF ~Truthy(order_by) THEN Ok("")
    ELSE
    LET parts == split(order_by.v)
        column == parts[1]
        direction == IF Len(parts) > 1 THEN upper(parts[2]) ELSE "ASC"
    IN  IF Len(parts) = 0 THEN Raise("IndexError", "list index out of range")
        ELSE IF column \notin TABLES[table].allowed
        THEN Raise("ValueError", "Invalid order_by column for " \o table \o ": " \o column)
        ELSE IF direction \notin {"ASC", "DESC"}
        THEN Raise("ValueError", "order_by direction must be ASC or DESC")
        ELSE Ok(" ORDER BY " \o column \o " " \o direction)

Max(a, b) == IF a > b THEN a ELSE b
Min(a, b) == IF a < b THEN a ELSE b

\* `table in TABLES` for the table argument
InTables(table) == IsStr(table) /\ table.v \in DOMAIN TABLES

\* build_select(table, filters, columns, limit, offset, order_by) -> BuiltQuery
build_select(table, filters, columns, limit, offset, order_by) ==
    IF ~InTables(table) THEN Raise("ValueError", "Invalid table")
    ELSE
    Try(query_validate_columns(table.v, columns), LAMBDA select_cols :
    Try(query_validate_filters(table.v, filters, ""), LAMBDA where :
    Try(query_validate_order_by(table.v, order_by), LAMBDA order_sql :
        Ok([sql |-> "SELECT " \o join(", ", select_cols)
                     \o " FROM " \o TABLES[table.v].name \o where.sql
                     \o order_sql \o " LIMIT %s OFFSET %s",
            params |-> where.params \o <<I(Max(1, Min(limit, 1000))),
                                         I(Max(0, offset))>>]))))

\* build_count(table, filters) -> BuiltQuery
build_count(table, filters) ==
    IF ~InTables(table) THEN Raise("ValueError", "Invalid table")
    ELSE
    Try(query_validate_filters(table.v, filters, ""), LAMBDA where :
        Ok([sql |-> "SELECT COUNT(*) AS count FROM " \o TABLES[table.v].name
                     \o where.sql,
            params |-> where.params]))

\* sorted(CONTACT_COLUMNS), sorted(CONTACT_DETAILS_COLUMNS)
sorted_CONTACT_COLUMNS ==
    << "account", "account_due_date", "account_to_speak", "address1",
       "address2", "agent_id", "agent_team_id", "amount_to_speak",
       "b_active", "callattemptslifetime", "callattemptstoday", "city",
       "client_id", "country_id", "createdate", "createuser", "department",
       "description", "do_not_dial", "do_not_dial_daily", "dob", "email",
       "email_address", "first_name", "group_id", "guarantor_firstname",
       "guarantor_lastname", "happiness_index", "happiness_ndx_updated",
       "happiness_trend", "initial_load_campaignid", "initial_load_date",
       "last_load_campaignid", "last_load_date", "last_name",
       "lvaccount_id", "modifydate", "modifyuser",
       "original_account_number", "paymentbalance", "phone1", "phone10",
       "phone10_attempts_lifetime", "phone10_attempts_today",
       "phone10_cell_consent", "phone10_dnd", "phone10_dnd_daily",
       "phone10_sms_consent", "phone1_attempts_lifetime",
       "phone1_attempts_today", "phone1_cell_consent", "phone1_dnd",
       "phone1_dnd_daily", "phone1_sms_consent", "phone2",
       "phone2_attempts_lifetime", "phone2_attempts_today",
       "phone2_cell_consent", "phone2_dnd", "phone2_dnd_daily",
       "phone2_sms_consent", "phone3", "phone3_attempts_lifetime",
       "phone3_attempts_today", "phone3_cell_consent", "phone3_dnd",
       "phone3_dnd_daily", "phone3_sms_consent", "phone4",
       "phone4_attempts_lifetime", "phone4_attempts_today",
       "phone4_cell_consent", "phone4_dnd", "phone4_dnd_daily",
       "phone4_sms_consent", "phone5", "phone5_attempts_lifetime",
       "phone5_attempts_today", "phone5_cell_consent", "phone5_dnd",
       "phone5_dnd_daily", "phone5_sms_consent", "phone6",
       "phone6_attempts_lifetime", "phone6_attempts_today",
       "phone6_cell_consent", "phone6_dnd", "phone6_dnd_daily",
       "phone6_sms_consent", "phone7", "phone7_attempts_lifetime",
       "phone7_attempts_today", "phone7_cell_consent", "phone7_dnd",
       "phone7_dnd_daily", "phone7_sms_consent", "phone8",
       "phone8_attempts_lifetime", "phone8_attempts_today",
       "phone8_cell_consent", "phone8_dnd", "phone8_dnd_daily",
       "phone8_sms_consent", "phone9", "phone9_attempts_lifetime",
       "phone9_attempts_today", "phone9_cell_consent", "phone9_dnd",
       "phone9_dnd_daily", "phone9_sms_consent", "postalcode",
       "primary_email_consent", "salutation", "sms", "ssn", "state",
       "title" >>

sorted_CONTACT_DETAILS_COLUMNS ==
    << "account", "client_id", "col1", "col10", "col100", "col11", "col12",
       "col13", "col14", "col15", "col16", "col17", "col18", "col19",
       "col2", "col20", "col21", "col22", "col23", "col24", "col25",
       "col26", "col27", "col28", "col29", "col3", "col30", "col31",
       "col32", "col33", "col34", "col35", "col36", "col37", "col38",
       "col39", "col4", "col40", "col41", "col42", "col43", "col44",
       "col45", "col46", "col47", "col48", "col49", "col5", "col50",
       "col51", "col52", "col53", "col54", "col55", "col56", "col57",
       "col58", "col59", "col6", "col60", "col61", "col62", "col63",
       "col64", "col65", "col66", "col67", "col68", "col69", "col7",
       "col70", "col71", "col72", "col73", "col74", "col75", "col76",
       "col77", "col78", "col79", "col8", "col80", "col81", "col82",
       "col83", "col84", "col85", "col86", "col87", "col88", "col89",
       "col9", "col90", "col91", "col92", "col93", "col94", "col95",
       "col96", "col97", "col98", "col99", "lvaccount_id" >>

\* s.lstrip(chars): s without its leading characters that are in chars
lstrip_chars(s, chars) ==
    IF \A i \in 1..Len(s) : SubSeq(s, i, i) \in chars THEN ""
    ELSE SubSeq(s, CHOOSE i \in 1..Len(s) :
                      /\ SubSeq(s, i, i) \notin chars
                      /\ \A j \in 1..(i - 1) : SubSeq(s, j, j) \in chars,
                Len(s))

\* the columns of one side: the full sorted set in place of ["*"]
SideColumns(cols, all) == IF cols = <<"*">> THEN all ELSE cols

\* a projection that keeps the wildcard of a side
SelectList_with_wildcard(cols, all, alias, prefix) ==
    [i \in 1..Len(cols) |->
        alias \o "." \o cols[i] \o " AS " \o prefix \o "_" \o cols[i]]

\* contact_select / details_select of build_contact_with_details_select
SelectList(cols, all, alias, prefix) ==
    [i \in 1..Len(SideColumns(cols, all)) |->
        alias \o "." \o SideColumns(cols, all)[i]
              \o " AS " \o prefix \o "_" \o SideColumns(cols, all)[i]]

\* where_sql of build_contact_with_details_select
JoinedWhere(where_contact_sql, where_details_sql) ==
    IF where_contact_sql # "" /\ where_details_sql # ""
    THEN where_contact_sql \o " AND "
            \o lstrip_chars(where_details_sql, {" ", "W", "H", "E", "R"})
    ELSE IF where_contact_sql # "" THEN where_contact_sql
    ELSE where_details_sql

\* order_sql of build_contact_with_details_select
JoinedOrderBy(order_by) ==
    IF ~Truthy(order_by) THEN Ok("")
    ELSE
    LET parts == split(order_by.v)
        column == parts[1]
        direction == IF Len(parts) > 1 THEN upper(parts[2]) ELSE "ASC"
    IN  IF Len(parts) = 0 THEN Raise("IndexError", "list index out of range")
        ELSE IF column \notin CONTACT_COLUMNS
        THEN Raise("ValueError", "Invalid order_by column for contact: " \o column)
        ELSE IF direction \notin {"ASC", "DESC"}
        THEN Raise("ValueError", "order_by direction must be ASC or DESC")
        ELSE Ok(" ORDER BY c." \o column \o " " \o direction)

\* build_contact_with_details_select(contact_filters, details_filters,
\*     contact_columns, details_columns, limit, offset, order_by)
build_contact_with_details_select(contact_filters, details_filters, contact_columns, details_columns, limit, offset, order_by) ==
    Try(query_validate_columns("contact", contact_columns), LAMBDA contact_cols :
    Try(query_validate_columns("contact_details", details_columns), LAMBDA details_cols :
    Try(query_validate_filters("contact", contact_filters, "c"), LAMBDA where_contact :
    Try(query_validate_filters("contact_details", details_filters, "d"), LAMBDA where_details :
    Try(JoinedOrderBy(order_by), LAMBDA order_sql :
        Ok([sql |-> "SELECT "
                     \o join(", ",
                             SelectList(contact_cols, sorted_CONTACT_COLUMNS,
                                        "c", "contact")
                             \o SelectList(details_cols,
                                           sorted_CONTACT_DETAILS_COLUMNS,
                                           "d", "details"))
                     \o " FROM lvousr.contact c LEFT JOIN lvousr.contact_details d"
                     \o " ON c.lvaccount_id = d.lvaccount_id"
                     \o JoinedWhere(where_contact.sql, where_details.sql)
                     \o order_sql \o " LIMIT %s OFFSET %s",
            params |-> where_contact.params \o where_details.params
                       \o <<I(Max(1, Min(limit, 1000))), I(Max(0, offset))>>]))))))

---------------------------------------------------------------------------
(* transaction.py: the Oracle and Postgres builders of the routed tools *)

TRANSACTION_COLUMNS ==
    { "ACCT_TRANSACTION_ID", "ACCOUNT", "PATIENT_FIRSTNAME", "PATIENT_LASTNAME",
      "GUARANTOR_FIRSTNAME", "GUARANTOR_LASTNAME", "PATIENT_PHONE1",
      "PATIENT_PHONE2", "PATIENT_DOB", "PATIENT_EMAIL", "PATIENT_SSN",
      "PATIENT_FIRST_ID", "PATIENT_SECOND_ID", "PRACTICE_ID", "CLIENT_ID",
      "CLIENT_PRACTICE_ID", "PRACTICE_PHONE", "PRACTICE_PHONE_ALTERNATE",
      "OPERATOR_PHONE", "PLACE_OF_SERVICE_ID", "ALT_LANGUAGE_1",
      "ALT_LANGUAGE_2", "ALT_LANGUAGE_3", "LANGUAGE_CALLBACK_1",
      "LANGUAGE_CALLBACK_2", "LANGUAGE_CALLBACK_3", "PRACTICE_FAX",
      "INSURANCE_TYPE", "INSURANCE_COMPANY", "TEMPLATE_ID", "REQUEUE_ID",
      "LAST_PAYMENT_DATE", "TOTAL_AMOUNT", "MINIMUM_PAYMENT_AMOUNT",
      "ACCOUNT_TO_SPEAK", "AMOUNT_TO_SPEAK", "DISCOUNT_AMOUNT_TO_SPEAK",
      "DISCOUNT_PERCENTAGE_TO_SPEAK", "DAYS_TO_SPEAK", "AMOUNT_1", "DAYS_DUE_1",
      "AMOUNT_2", "DAYS_DUE_2", "AMOUNT_3", "DAYS_DUE_3", "AMOUNT_4",
      "DAYS_DUE_4", "AMOUNT_5", "DAYS_DUE_5", "AMOUNT_6", "DAYS_DUE_6",
      "INPUT_ID_MENU", "INPUT_DYNAMIC_MENU_1", "INPUT_DYNAMIC_MENU_2",
      "INPUT_CREDIT_CARD_NUMBER", "INPUT_CREDIT_CARD_EXP_DATE",
      "INPUT_APPROVAL_CODE", "INPUT_PAYMENT_AMOUNT", "INPUT_OTHER_PHONE_NUMBER",
      "INPUT_FAX_PHONE_NUMBER", "INPUT_SSN", "INPUT_DOB", "INPUT_FIRST_ID",
      "INPUT_SECOND_ID", "CONFIRM_CREDIT_CARD_NUMBER",
      "CONFIRM_CREDIT_CARD_EXP_DATE", "CONFIRM_APPROVAL_CODE",
      "CONFIRM_PAYMENT_AMOUNT", "CONFIRM_OTHER_PHONE_NUMBER",
      "CONFIRM_FAX_PHONE_NUMBER", "CONFIRM_FIRST_ID", "CONFIRM_SECOND_ID",
      "LANGUAGE", "EXTRA_1", "EXTRA_2", "EXTRA_3", "EXTRA_4", "EXTRA_5",
      "EXTRA_6", "EXTRA_7", "EXTRA_8", "EXTRA_9", "EXTRA_10", "EXTRA_11",
      "EXTRA_12", "EXTRA_13", "EXTRA_14", "EXTRA_15", "EXTRA_16", "EXTRA_17",
      "EXTRA_18", "EXTRA_19", "EXTRA_20", "LIVE_PERSON", "MACHINE",
      "NOT_AVAILABLE", "LEAD_1", "LEAD_2", "LEAD_3", "LEAD_4", "LEAD_5",
      "LEAD_6", "LEAD_CREDIT_CARD_NUMBER", "LEAD_OTHER_PHONE_NUMBER",
      "LEAD_OTHER_FAX_NUMBER", "NO_INPUT", "QUEUED", "B_ACTIVE",
      "TRANSACTION_UPDATE", "ATTEMPT", "CALL_START_TIME", "CALL_CONNECT_TIME",
      "CALL_FINISH_TIME", "CALL_DURATION", "OUTCOME", "RESULT1", "RESULT2",
      "TFH_RESULT", "PHONE_DIALED", "PHONE_UPDATE", "TRANSFER_CONNECT_TIME",
      "TRANSFER_DURATION", "DATE_MODIFIED", "BILLING", "SESSION_ID",
      "CAMPAIGN_ID", "LVTRANSACTION_TYPE", "ORIGINAL_ACCOUNT_NUMBER",
      "CHAT_RATING", "LVTRANSACTION_SUBTYPE", "ASSIGNED_THREAD_OWNER_AGENT_ID",
      "ACTIVE_THREAD" }

\* _normalize_identifier(name)
normalize_identifier(name) == upper(strip(name))

Digits == "0123456789"
IsDigits(s) == s # "" /\ \A i \in 1..Len(s) : IndexIn(SubSeq(s, i, i), Digits) # 0

RECURSIVE ToInt(_)
ToInt(s) ==
    IF s = "" THEN 0
    ELSE 10 * ToInt(SubSeq(s, 1, Len(s) - 1))
         + (IndexIn(SubSeq(s, Len(s), Len(s)), Digits) - 1)

\* s.split(sep) on a one-character separator
RECURSIVE SplitOn(_, _, _)
SplitOn(s, sep, word) ==
    IF s = "" THEN <<word>>
    ELSE IF Head(s) = sep THEN <<word>> \o SplitOn(Tail(s), sep, "")
    ELSE SplitOn(Tail(s), sep, word \o Head(s))

MonthNames ==
    <<"jan", "feb", "mar", "apr", "may", "jun",
      "jul", "aug", "sep", "oct", "nov", "dec">>

IsLeap(y) == (y % 4 = 0 /\ y % 100 # 0) \/ y % 400 = 0
DaysIn(y, m) ==
    IF m = 2 THEN (IF IsLeap(y) THEN 29 ELSE 28)
    ELSE IF m \in {4, 6, 9, 11} THEN 30 ELSE 31

InRange(n, lo, hi) == IF n >= lo /\ n <= hi THEN n ELSE -1
\* a strptime field of one or two digits within lo..hi, -1 when it does not parse
Field(s, lo, hi) ==
    IF IsDigits(s) /\ Len(s) <= 2 THEN InRange(ToInt(s), lo, hi) ELSE -1
\* %Y: four digits
FieldY(s) == IF IsDigits(s) /\ Len(s) = 4 THEN ToInt(s) ELSE -1
\* %y: two digits, 69..99 -> 19xx, 00..68 -> 20xx
Century(n) == IF n >= 69 THEN 1900 + n ELSE 2000 + n
Fieldy(s) == IF IsDigits(s) /\ Len(s) = 2 THEN Century(ToInt(s)) ELSE -1
\* %b: a month abbreviation, in any case
MonthNumber(name) ==
    IF \E m \in 1..12 : MonthNames[m] = name
    THEN CHOOSE m \in 1..12 : MonthNames[m] = name
    ELSE -1
Fieldb(s) == MonthNumber(lower(s))

ValidDate(ymd) ==
    ymd[1] >= 1 /\ ymd[2] >= 1 /\ ymd[3] >= 1 /\ ymd[3] <= DaysIn(ymd[1], ymd[2])
ValidOrEmpty(ymd) == IF ValidDate(ymd) THEN ymd ELSE <<>>
NonNegative(t) == IF \A i \in 1..Len(t) : t[i] >= 0 THEN t ELSE <<>>

\* datetime.strptime(value, "%Y-%m-%d"): <<y, m, d>>, or <<>> for ValueError
YmdOf(p) ==
    IF Len(p) = 3
    THEN ValidOrEmpty(<<FieldY(p[1]), Field(p[2], 1, 12), Field(p[3], 1, 31)>>)
    ELSE <<>>
ParseYmd(s) == YmdOf(SplitOn(s, "-", ""))

\* "%H:%M:%S": <<H, M, S>>, or <<>>
HmsOf(p) ==
    IF Len(p) = 3
    THEN NonNegative(<<Field(p[1], 0, 23), Field(p[2], 0, 59), Field(p[3], 0, 61)>>)
    ELSE <<>>
ParseHms(s) == HmsOf(SplitOn(s, ":", ""))

\* "%Y-%m-%d %H:%M:%S"
BothParsed(ymd, hms) == IF ymd # <<>> /\ hms # <<>> THEN ymd \o hms ELSE <<>>
YmdHmsOf(s, w) ==
    IF Len(w) = 2 /\ strip(s) = s
    THEN BothParsed(ParseYmd(w[1]), ParseHms(w[2]))
    ELSE <<>>
ParseYmdHms(s) == YmdHmsOf(s, split(s))

\* "%d-%b-%Y" (long) and "%d-%b-%y" (not long)
DbyOf(p, long) ==
    IF Len(p) = 3
    THEN ValidOrEmpty(<<IF long THEN FieldY(p[3]) ELSE Fieldy(p[3]),
                        Fieldb(p[2]), Field(p[1], 1, 31)>>)
    ELSE <<>>
ParseDby(s, long) == DbyOf(SplitOn(s, "-", ""), long)

\* the value of the first format that parses, in the order the loop tries
\* them; `value` itself when none does
FirstParsed(value, f1, f2, f3, f4) ==
    IF f1 # <<>> THEN [k |-> "date", v |-> f1]
    ELSE IF f2 # <<>> THEN [k |-> "datetime", v |-> f2]
    ELSE IF f3 # <<>> THEN [k |-> "date", v |-> f3]
    ELSE IF f4 # <<>> THEN [k |-> "date", v |-> f4]
    ELSE value

\* _convert_to_date(value)
convert_to_date(value) ==
    IF value.k \in {"date", "datetime"} \/ ~IsStr(value) THEN value
    ELSE FirstParsed(value, ParseYmd(value.v), ParseYmdHms(value.v),
                     ParseDby(value.v, TRUE), ParseDby(value.v, FALSE))

\* {c.upper() for c in CONTACT_COLUMNS} and the lower-case sets of the
\* Postgres routed builders
CONTACT_COLUMNS_UPPER == {upper(c) : c \in CONTACT_COLUMNS}
CONTACT_COLUMNS_LOWER == {lower(c) : c \in CONTACT_COLUMNS}
TRANSACTION_COLUMNS_LOWER == {lower(c) : c \in TRANSACTION_COLUMNS}

\* the allowed columns of _validate_columns / _validate_filters (upper case)
AllowedUpper(table) ==
    IF table = "contact" THEN CONTACT_COLUMNS_UPPER ELSE TRANSACTION_COLUMNS

\* the allowed columns of the Postgres routed builders (lower case)
AllowedLower(table) ==
    IF table = "contact" THEN CONTACT_COLUMNS_LOWER ELSE TRANSACTION_COLUMNS_LOWER

\* transaction._validate_columns(columns, table)
tx_validate_columns(columns, table) ==
    IF ~Truthy(columns) THEN Ok(<<"*">>)
    ELSE
    LET normalized ==
            [i \in 1..Len(columns.v) |-> normalize_identifier(columns.v[i].v)]
        invalid == {i \in 1..Len(normalized) :
                        normalized[i] \notin AllowedUpper(table)}
    IN  IF invalid # {}
        THEN Raise("ValueError", "Invalid columns for " \o table)
        ELSE Ok(normalized)

\* a filter entry's operator and operand: a sequence of two is [op, value],
\* a mapping with an "op" key is {op, value}, anything else is an equality
TxFilterOp(value) ==
    IF IsListOrTuple(value) /\ Len(value.v) = 2
    THEN [op |-> lower(Str(value.v[1])), operand |-> value.v[2]]
    ELSE IF IsMapping(value) /\ HasKey(value, "op")
    THEN [op |-> lower(Str(Get(value, "op"))), operand |-> Get(value, "value")]
    ELSE [op |-> "=", operand |-> value]

\* next_param(): the bind name for the counter's value
ParamName(counter) == "p" \o ToString(counter)

\* a one-bind comparison of the Oracle translator
OneBind(text, counter, value) ==
    Ok([sql |-> text, params |-> <<<<ParamName(counter), value>>>>, used |-> 1])

\* the Oracle clause and binds of one filter entry (the if/elif chain);
\* `used` is how far the entry advances the counter
OracleClause(column, op, operand, counter) ==
    LET p == ":" \o ParamName(counter)
        converted == IF op \in {"in", "not_in", "between"} THEN operand
                     ELSE convert_to_date(operand)
    IN
    CASE op \in {"eq", "="} ->
            OneBind(column \o " = " \o p, counter, converted)
      [] op \in {"neq", "!=", "<>"} ->
            OneBind(column \o " <> " \o p, counter, converted)
      [] op \in {"gt", ">"} ->
            OneBind(column \o " > " \o p, counter, converted)
      [] op \in {"gte", ">="} ->
            OneBind(column \o " >= " \o p, counter, converted)
      [] op \in {"lt", "<"} ->
            OneBind(column \o " < " \o p, counter, converted)
      [] op \in {"lte", "<="} ->
            OneBind(column \o " <= " \o p, counter, converted)
      [] op = "like" -> OneBind(column \o " LIKE " \o p, counter, operand)
      [] op = "not_like" ->
            OneBind(column \o " NOT LIKE " \o p, counter, operand)
      [] op = "ilike" ->
            OneBind("LOWER(" \o column \o ") LIKE LOWER(" \o p \o ")",
                    counter, operand)
      [] op = "not_ilike" ->
            OneBind("LOWER(" \o column \o ") NOT LIKE LOWER(" \o p \o ")",
                    counter, operand)
      [] op \in {"in", "not_in"} ->
            IF ~IsListTupleOrSet(operand) \/ ~Truthy(operand)
            THEN Raise("ValueError", op \o " operator requires a non-empty list")
            ELSE
            LET n == Len(operand.v)
                bind_names == [i \in 1..n |-> ":" \o ParamName(counter + i - 1)]
            IN  Ok([sql |-> column \o (IF op = "in" THEN " IN" ELSE " NOT IN")
                             \o " (" \o join(", ", bind_names) \o ")",
                    params |-> [i \in 1..n |->
                                  <<ParamName(counter + i - 1),
                                    convert_to_date(operand.v[i])>>],
                    used |-> n])
      [] op = "between" ->
            IF ~IsListOrTuple(operand) \/ Len(operand.v) # 2
            THEN Raise("ValueError", "between operator requires a list of two values")
            ELSE Ok([sql |-> column \o " BETWEEN " \o p \o " AND :"
                              \o ParamName(counter + 1),
                     params |-> << <<ParamName(counter),
                                     convert_to_date(operand.v[1])>>,
                                   <<ParamName(counter + 1),
                                     convert_to_date(operand.v[2])>> >>,
                     used |-> 2])
      [] op = "is_null" ->
            Ok([sql |-> column \o " IS NULL", params |-> <<>>, used |-> 0])
      [] op = "is_not_null" ->
            Ok([sql |-> column \o " IS NOT NULL", params |-> <<>>, used |-> 0])
      [] OTHER -> Raise("ValueError", "Unsupported filter operator: " \o op)

\* the loop of transaction._validate_filters
RECURSIVE OracleFilterLoop(_, _, _, _, _)
\* one entry of the loop: the column check, the entry's clause, the next entry
OracleFilterEntry(table, items, clauses, params, counter, column, fo) ==
    IF column \notin AllowedUpper(table)
    THEN Raise("ValueError", "Invalid filter column for " \o table \o ": " \o column)
    ELSE Try(OracleClause(column, fo.op, fo.operand, counter),
             LAMBDA clause :
                OracleFilterLoop(table, Tail(items), Append(clauses, clause.sql),
                                 params \o clause.params, counter + clause.used))

OracleFilterLoop(table, items, clauses, params, counter) ==
    IF Len(items) = 0
    THEN Ok([sql |-> " WHERE " \o join(" AND ", clauses), params |-> D(params)])
    ELSE OracleFilterEntry(table, items, clauses, params, counter,
                           normalize_identifier(items[1][1]),
                           TxFilterOp(items[1][2]))

\* transaction._validate_filters(filters, table) -> (where_sql, params dict)
tx_validate_filters(filters, table) ==
    IF ~Truthy(filters) THEN Ok([sql |-> "", params |-> D(<<>>)])
    ELSE OracleFilterLoop(table, filters.v, <<>>, <<>>, 1)

\* transaction._validate_order_by(order_by): always against TRANSACTION_COLUMNS
tx_validate_order_by(order_by) ==
    IF ~Truthy(order_by) THEN Ok("")
    ELSE
    LET parts == split(order_by.v)
        column == normalize_identifier(parts[1])
        direction == IF Len(parts) > 1 THEN upper(parts[2]) ELSE "ASC"
    IN  IF Len(parts) = 0 THEN Raise("IndexError", "list index out of range")
        ELSE IF column \notin TRANSACTION_COLUMNS
        THEN Raise("ValueError", "Invalid order_by column for transaction: " \o column)
        ELSE IF direction \notin {"ASC", "DESC"}
        THEN Raise("ValueError", "order_by direction must be ASC or DESC")
        ELSE Ok(" ORDER BY " \o column \o " " \o direction)

ColumnsSql(select_cols) ==
    IF select_cols = <<"*">> THEN "*" ELSE join(", ", select_cols)

\* build_transaction_union(table_names, filters, columns, limit, order_by)
build_transaction_union(table_names, filters, columns, limit, order_by) ==
    IF Len(table_names) = 0
    THEN Raise("ValueError", "At least one transaction table must be provided")
    ELSE
    Try(tx_validate_columns(columns, "transaction"), LAMBDA select_cols :
    Try(tx_validate_filters(filters, "transaction"), LAMBDA where :
    Try(tx_validate_order_by(order_by), LAMBDA order_sql :
        Ok([sql |-> "SELECT * FROM ("
                     \o join(" UNION ALL ",
                             [i \in 1..Len(table_names) |->
                                "SELECT " \o ColumnsSql(select_cols) \o " FROM "
                                \o table_names[i] \o where.sql])
                     \o ")" \o order_sql \o " FETCH FIRST :limit ROWS ONLY",
            params |-> SetItem(where.params, "limit",
                               I(Max(1, Min(limit, 1000))))]))))

\* months going back from today that stay in today's year
previous_months_same_year(year, month, count) ==
    [i \in 1..count |-> <<((month - 1 - i) % 12) + 1, year>>]

\* _previous_months(today, count): <<month, year>> pairs going back from today
RECURSIVE previous_months(_, _, _)
previous_months(year, month, count) ==
    IF count = 0 THEN <<>>
    ELSE
    LET m == IF month - 1 = 0 THEN 12 ELSE month - 1
        y == IF month - 1 = 0 THEN year - 1 ELSE year
    IN  <<<<m, y>>>> \o previous_months(y, m, count - 1)

\* f"{n:02d}"
Pad2(n) == IF n < 10 THEN "0" \o ToString(n) ELSE ToString(n)

\* resolve_transaction_tables(dialing_db, reporting_db, today), with the
\* configured archive count and today as <<year, month, day>>
resolve_transaction_tables(dialing_db, reporting_db, archive_count, today) ==
    IF ~Truthy(dialing_db) THEN Raise("ValueError", "dialing_db is required")
    ELSE
    LET months == previous_months(today[1], today[2], archive_count)
        live == <<"LVOUSR.TRANSACTION@" \o dialing_db.v>>
    IN  IF Truthy(reporting_db) /\ archive_count > 0
        THEN Ok(live \o [i \in 1..Len(months) |->
                           "LVOUSR.TRANSACTION_" \o Pad2(months[i][1])
                           \o Pad2(months[i][2] % 100) \o "@" \o reporting_db.v])
        ELSE Ok(live)

\* get_client_db_links_query(client_id) / get_skills_for_client_query(client_id)
get_client_db_links_query(client_id) ==
    [sql |-> "SELECT dialing_db, reporting_db FROM lvousr.client"
              \o " WHERE client_id = :client_id",
     params |-> D(<<<<"client_id", client_id>>>>)]

get_skills_for_client_query(client_id) ==
    [sql |-> "SELECT skill_id FROM lvousr.skillxclient WHERE client_id = :client_id",
     params |-> D(<<<<"client_id", client_id>>>>)]

\* build_oracle_contact_select(dialing_db, filters, columns, limit, order_by)
build_oracle_contact_select(dialing_db, filters, columns, limit, order_by) ==
    IF ~Truthy(dialing_db) THEN Raise("ValueError", "dialing_db is required")
    ELSE
    Try(tx_validate_columns(columns, "contact"), LAMBDA select_cols :
    Try(tx_validate_filters(filters, "contact"), LAMBDA where :
    Try(tx_validate_order_by(order_by), LAMBDA order_sql :
        Ok([sql |-> "SELECT " \o ColumnsSql(select_cols)
                     \o " FROM lvousr.contact@" \o dialing_db.v
                     \o where.sql \o order_sql
                     \o " FETCH FIRST :limit ROWS ONLY",
            params |-> SetItem(where.params, "limit",
                               I(Max(1, Min(limit, 1000))))]))))

\* the Postgres clause of one filter entry of _validate_filters_postgres
PostgresClause(column, op, operand) ==
    CASE op \in {"eq", "="} ->
            Ok([sql |-> column \o " = %s", params |-> <<operand>>])
      [] op \in {"neq", "!=", "<>"} ->
            Ok([sql |-> column \o " <> %s", params |-> <<operand>>])
      [] op \in {"gt", ">"} ->
            Ok([sql |-> column \o " > %s", params |-> <<operand>>])
      [] op \in {"gte", ">="} ->
            Ok([sql |-> column \o " >= %s", params |-> <<operand>>])
      [] op \in {"lt", "<"} ->
            Ok([sql |-> column \o " < %s", params |-> <<operand>>])
      [] op \in {"lte", "<="} ->
            Ok([sql |-> column \o " <= %s", params |-> <<operand>>])
      [] op = "like" ->
            Ok([sql |-> column \o " LIKE %s", params |-> <<operand>>])
      [] op = "ilike" ->
            Ok([sql |-> column \o " ILIKE %s", params |-> <<operand>>])
      [] op \in {"in", "not_in"} ->
            IF ~IsListTupleOrSet(operand) \/ ~Truthy(operand)
            THEN Raise("ValueError", op \o " operator requires a non-empty list")
            ELSE Ok([sql |-> column \o (IF op = "in" THEN " IN" ELSE " NOT IN")
                              \o " (" \o Placeholders(Len(operand.v)) \o ")",
                     params |-> operand.v])
      [] op = "between" ->
            IF ~IsListOrTuple(operand) \/ Len(operand.v) # 2
            THEN Raise("ValueError", "between operator requires a list of two values")
            ELSE Ok([sql |-> column \o " BETWEEN %s AND %s",
                     params |-> <<operand.v[1], operand.v[2]>>])
      [] op = "is_null" -> Ok([sql |-> column \o " IS NULL", params |-> <<>>])
      [] op = "is_not_null" ->
            Ok([sql |-> column \o " IS NOT NULL", params |-> <<>>])
      [] OTHER -> Raise("ValueError", "Unsupported filter operator: " \o op)

\* the loop of _validate_filters_postgres
RECURSIVE PostgresFilterLoop(_, _, _, _)
\* one entry of the loop: the column check, the entry's clause, the next entry
PostgresFilterEntry(table, items, clauses, params, column, fo) ==
    IF column \notin AllowedLower(table)
    THEN Raise("ValueError", "Invalid filter column for " \o table \o ": " \o column)
    ELSE Try(PostgresClause(column, fo.op, fo.operand),
             LAMBDA clause :
                PostgresFilterLoop(table, Tail(items),
                                   Append(clauses, clause.sql),
                                   params \o clause.params))

PostgresFilterLoop(table, items, clauses, params) ==
    IF Len(items) = 0
    THEN Ok([sql |-> " WHERE " \o join(" AND ", clauses), params |-> params])
    ELSE PostgresFilterEntry(table, items, clauses, params,
                             lower(strip(items[1][1])), TxFilterOp(items[1][2]))

\* _validate_filters_postgres(filters, table) -> (where_sql, params list)
validate_filters_postgres(filters, table) ==
    IF ~Truthy(filters) THEN Ok([sql |-> "", params |-> <<>>])
    ELSE PostgresFilterLoop(table, filters.v, <<>>, <<>>)

\* _validate_order_by_postgres(order_by, table)
validate_order_by_postgres(order_by, table) ==
    IF ~Truthy(order_by) THEN Ok("")
    ELSE
    LET parts == split(order_by.v)
        column == lower(parts[1])
        direction == IF Len(parts) > 1 THEN upper(parts[2]) ELSE "ASC"
    IN  IF Len(parts) = 0 THEN Raise("IndexError", "list index out of range")
        ELSE IF column \notin AllowedLower(table)
        THEN Raise("ValueError", "Invalid order_by column for " \o table \o ": " \o column)
        ELSE IF direction \notin {"ASC", "DESC"}
        THEN Raise("ValueError", "order_by direction must be ASC or DESC")
        ELSE Ok(" ORDER BY " \o column \o " " \o direction)

\* the projection of the Postgres routed builders: the requested names in
\* lower case, as given
PostgresSelectCols(columns) ==
    IF Truthy(columns)
    THEN [i \in 1..Len(columns.v) |-> lower(columns.v[i].v)]
    ELSE <<"*">>

\* a parameter list that is not repeated
Repeat_once(params, n) == params

RECURSIVE Repeat(_, _)
Repeat(params, n) == IF n = 0 THEN <<>> ELSE params \o Repeat(params, n - 1)

\* build_postgres_transaction_union(table_names, filters, columns, limit, order_by)
build_postgres_transaction_union(table_names, filters, columns, limit, order_by) ==
    IF Len(table_names) = 0
    THEN Raise("ValueError", "At least one transaction table must be provided")
    ELSE
    Try(validate_filters_postgres(filters, "transaction"), LAMBDA where :
    Try(validate_order_by_postgres(order_by, "transaction"), LAMBDA order_sql :
        Ok([sql |-> "SELECT * FROM ("
                     \o join(" UNION ALL ",
                             [i \in 1..Len(table_names) |->
                                "SELECT " \o ColumnsSql(PostgresSelectCols(columns))
                                \o " FROM "
                                \o lower(SplitOn(table_names[i], "@", "")[1])
                                \o where.sql])
                     \o ") AS combined" \o order_sql \o " LIMIT %s",
            params |-> Repeat(where.params, Len(table_names))
                       \o <<I(Max(1, Min(limit, 1000)))>>])))

\* build_postgres_contact_select(filters, columns, limit, order_by)
build_postgres_contact_select(filters, columns, limit, order_by) ==
    Try(validate_filters_postgres(filters, "contact"), LAMBDA where :
    Try(validate_order_by_postgres(order_by, "contact"), LAMBDA order_sql :
        Ok([sql |-> "SELECT " \o ColumnsSql(PostgresSelectCols(columns))
                     \o " FROM lvousr.contact" \o where.sql
                     \o order_sql \o " LIMIT %s",
            params |-> where.params \o <<I(Max(1, Min(limit, 1000)))>>])))

---------------------------------------------------------------------------
(* campaign.py: the statement builders of create_campaign_from_query.      *)
(* They take the resolved filter through the Oracle filter translator; the *)
(* statement texts follow the design (COUNT over the table set, INSERT     *)
(* with a RETURNING output bind, INSERT ... SELECT with the campaign id as *)
(* a literal and FETCH FIRST around the source select for max_records).    *)

\* build_count_query_for_campaign(dialing_db, filters, table_names)
build_count_query_for_campaign(dialing_db, filters, table_names) ==
    Try(tx_validate_filters(filters, "transaction"), LAMBDA where :
        Ok([sql |-> "SELECT COUNT(*) FROM ("
                     \o join(" UNION ALL ",
                             [i \in 1..Len(table_names) |->
                                "SELECT * FROM " \o table_names[i] \o where.sql])
                     \o ")",
            params |-> where.params]))

\* build_campaign_insert(camp_data): one bind per column, and the output bind
build_campaign_insert(camp_data) ==
    LET cols == Keys(camp_data)
    IN  [sql |-> "INSERT INTO lvousr.campaign (" \o join(", ", cols)
                  \o ") VALUES ("
                  \o join(", ", [i \in 1..Len(cols) |-> ":" \o cols[i]])
                  \o ") RETURNING campaign_id INTO :out_campaign_id",
         params |-> camp_data]

\* FETCH FIRST around the source select when max_records is given
Limited(union, max_records) ==
    IF IsNone(max_records) THEN union
    ELSE "SELECT * FROM (" \o union \o ") FETCH FIRST "
         \o ToString(max_records.v) \o " ROWS ONLY"

\* build_source_query_for_campaign(filters, table_names, max_records)
build_source_query_for_campaign(filters, table_names, max_records) ==
    Try(tx_validate_filters(filters, "transaction"), LAMBDA where :
        Ok([sql |-> Limited(join(" UNION ALL ",
                                 [i \in 1..Len(table_names) |->
                                    "SELECT * FROM " \o table_names[i]
                                    \o where.sql]),
                            max_records),
            params |-> where.params]))

\* build_transaction_insert_from_select(dialing_db, campaign_id, source_query,
\*                                      source_params)
build_transaction_insert_from_select(dialing_db, campaign_id, source_query, source_params) ==
    [sql |-> "INSERT INTO LVOUSR.TRANSACTION@" \o dialing_db.v
              \o " SELECT " \o ToString(campaign_id)
              \o " AS CAMPAIGN_ID, src.* FROM (" \o source_query \o ") src",
     params |-> source_params]

---------------------------------------------------------------------------
(* The databases behind the tools *)

\* lvousr.client of the Oracle config database: client_id -> (dialing_db,
\* reporting_db); client 5 has no row
ClientIds == 1..5
ClientTable ==
    [c \in 1..4 |->
        CASE c = 1 -> <<S("lvstg4a"), S("lvrpt4a")>>
          [] c = 2 -> <<S("LVSTG4B"), None>>
          [] c = 3 -> <<S("lvstg4a"), None>>
          [] c = 4 -> <<S("lvprod"), S("lvrpt")>>]

\* lvousr.skillxclient: client_id -> skill ids, in the order the lookup
\* returns them
SkillTable ==
    [c \in ClientIds |->
        CASE c = 1 -> <<11>>
          [] c = 2 -> <<21>>
          [] c = 3 -> <<12, 13>>
          [] OTHER -> <<>>]

TxRow(skill, outcome) ==
    [CLIENT_ID |-> I(skill), OUTCOME |-> S(outcome), CAMPAIGN_ID |-> None]

\* LVOUSR.TRANSACTION of each Oracle dialing database before any call
InitialTx ==
    [link \in {"lvstg4a", "lvprod"} |->
        IF link = "lvstg4a"
        THEN <<TxRow(11, "FAILED"), TxRow(11, "FAILED"), TxRow(11, "SUCCESS"),
               TxRow(12, "FAILED"), TxRow(13, "FAILED")>>
        ELSE <<>>]

\* what a translated filter entry selects: the database's reading of the
\* clause the Oracle translator emits for it
ClauseHolds(cell, op, operand) ==
    CASE op \in {"eq", "="} -> cell = operand
      [] op \in {"neq", "!=", "<>"} -> ~IsNone(cell) /\ cell # operand
      [] op \in {"in"} -> \E i \in 1..Len(operand.v) : operand.v[i] = cell
      [] op \in {"not_in"} ->
            ~IsNone(cell) /\ \A i \in 1..Len(operand.v) : operand.v[i] # cell
      [] op = "is_null" -> IsNone(cell)
      [] op = "is_not_null" -> ~IsNone(cell)
      [] op \in {"gt", ">"} -> IsInt(cell) /\ IsInt(operand) /\ cell.v > operand.v
      [] op \in {"gte", ">="} -> IsInt(cell) /\ IsInt(operand) /\ cell.v >= operand.v
      [] op \in {"lt", "<"} -> IsInt(cell) /\ IsInt(operand) /\ cell.v < operand.v
      [] op \in {"lte", "<="} -> IsInt(cell) /\ IsInt(operand) /\ cell.v <= operand.v
      [] op = "between" ->
            /\ IsInt(cell) /\ IsInt(operand.v[1]) /\ IsInt(operand.v[2])
            /\ cell.v >= operand.v[1].v /\ cell.v <= operand.v[2].v
      [] OTHER -> FALSE

RowMatches(row, filters) ==
    \A i \in 1..Len(filters.v) :
        LET column == normalize_identifier(filters.v[i][1])
            fo == TxFilterOp(filters.v[i][2])
        IN  /\ column \in DOMAIN row
            /\ ClauseHolds(row[column], fo.op, fo.operand)

\* the rows of a table that a filter selects, in table order
RECURSIVE MatchingRows(_, _)
MatchingRows(rows, filters) ==
    IF Len(rows) = 0 THEN <<>>
    ELSE (IF RowMatches(rows[1], filters) THEN <<rows[1]>> ELSE <<>>)
         \o MatchingRows(Tail(rows), filters)

\* FETCH FIRST n ROWS ONLY
FetchFirst(rows, max_records) ==
    IF IsNone(max_records) THEN rows
    ELSE SubSeq(rows, 1, Min(Len(rows), max_records.v))

\* the campaign_id the config database generates for its next campaign row
NextCampaignId == 501 + Len(campaigns)

---------------------------------------------------------------------------
(* Bounds and inputs of the model *)

\* campaigns the config database may hold before calls stop being started
MaxCampaigns == 1
\* the largest max_records a caller passes
MaxRecords == 2
\* the largest TX_ARCHIVE_COUNT the resolver is applied to
MaxArchive == 3

NoResult == [k |-> "none"]
Returned(value) == [k |-> "return", value |-> value]
Raised(exc) == [k |-> "raise", exc |-> exc]

\* a statement handed to a backend, how its execution ended ("ok", "error":
\* execute raised, "uncommitted": executed, the commit raised) and what it
\* gave the handler (a fetched row, the fetched rows, an output bind, a
\* rowcount; None when it failed)
Stmt(backend, kind, q, outcome, fetched) ==
    [backend |-> backend, kind |-> kind, sql |-> q.sql, params |-> q.params,
     outcome |-> outcome, fetched |-> fetched]

\* where a backend call can fail: acquiring the connection, executing the
\* statement, committing it
ReadFails == {"none", "connect", "execute"}
WriteFails == {"none", "connect", "execute", "commit"}

\* the log after a backend call that fails at `fail`
LogAfter(backend, kind, q, fail, fetched) ==
    CASE fail = "connect" -> log
      [] fail = "execute" -> Append(log, Stmt(backend, kind, q, "error", None))
      [] fail = "commit" -> Append(log, Stmt(backend, kind, q, "uncommitted", None))
      [] OTHER -> Append(log, Stmt(backend, kind, q, "ok", fetched))

QueryFilters ==
    { D(<<>>),
      D(<<<<"outcome", S("FAILED")>>>>),
      D(<<<<"outcome", S("NOPE")>>>>),
      D(<<<<"CLIENT_ID", I(11)>>, <<"outcome", S("FAILED")>>>>),
      D(<<<<"client_id", L(<<S("="), I(12)>>)>>>>),
      D(<<<<"Client_Id", D(<<<<"op", S("in")>>,
                             <<"value", L(<<I(11), I(12)>>)>>>>)>>>>),
      D(<<<<"client_id", L(<<>>)>>>>),
      D(<<<<" client_id", I(11)>>>>),
      D(<<<<"bogus", I(1)>>>>),
      D(<<<<"outcome", D(<<<<"op", S("in")>>, <<"value", L(<<>>)>>>>)>>>>) }

CampaignData ==
    { None,
      D(<<<<"am_option", S("NO_AM")>>>>),
      D(<<<<"am_option", S("SOMETIMES")>>>>),
      D(<<<<"skill_id", I(99)>>, <<"filename", S("requeue.csv")>>>>) }

MaxRecordsArgs == {None} \cup {I(n) : n \in 1..MaxRecords}

---------------------------------------------------------------------------
(* tools.py: create_campaign_from_query *)

\* a key lookup that only knows the spelling client_id
client_id_key_exact(filters) ==
    IF HasKey(filters, "client_id") THEN "client_id" ELSE ""

\* the first key of the filter that is CLIENT_ID in upper case, "" for None
client_id_key(filters) ==
    LET hits == {i \in 1..Len(filters.v) : upper(filters.v[i][1]) = "CLIENT_ID"}
    IN  IF hits = {} THEN ""
        ELSE filters.v[CHOOSE i \in hits : \A j \in hits : i <= j][1]

\* skill_id_for_campaign when the caller's filter names the skill
SkillFromFilter(value) ==
    IF IsListOrTuple(value)
    THEN (IF Len(value.v) > 1 THEN Ok(value.v[2])
          ELSE IF Len(value.v) = 1 THEN Ok(value.v[1])
          ELSE Raise("IndexError", "list index out of range"))
    ELSE Ok(value)

\* a skill substitution that writes an IN filter whatever the number of skills
FiltersWithSkillsIn(filters, skill_ids) ==
    SetItem(filters, "client_id", D(<<<<"op", S("in")>>, <<"value", skill_ids>>>>))

\* the filter after the skill lookup found skill_ids (not empty)
FiltersWithSkills(filters, skill_ids) ==
    IF Len(skill_ids.v) = 1
    THEN SetItem(filters, "client_id", skill_ids.v[1])
    ELSE SetItem(filters, "client_id",
                 D(<<<<"op", S("in")>>, <<"value", skill_ids>>>>))

\* camp_data: the caller's campaign data with client_id, and with skill_id
\* and filename when the caller gave none
PrepareCampData(campaign_data, client_id, skill_id_for_campaign) ==
    LET d0 == IF Truthy(campaign_data) THEN campaign_data ELSE D(<<>>)
        d1 == SetItem(d0, "client_id", I(client_id))
        d2 == IF ~HasKey(d1, "skill_id") /\ Truthy(skill_id_for_campaign)
              THEN SetItem(d1, "skill_id", skill_id_for_campaign) ELSE d1
    IN  IF ~HasKey(d2, "filename")
        THEN SetItem(d2, "filename", S("auto_campaign_<now>")) ELSE d2

\* where the handler goes next: its position, its locals, its outcome
Goto(n) == pc' = n.pc /\ loc' = n.loc /\ result' = n.result
Finish(outcome) == [pc |-> "done", loc |-> None, result |-> outcome]
\* a backend call raised: the exception leaves the handler
BackendError == Finish(Raised("BackendError"))
\* return {"success": False, "error": error}
Failure(error) == Finish(Returned([success |-> FALSE, error |-> error]))

\* the count query is built from the resolved filter; a ValueError of the
\* builder is returned as "Invalid query filters"
CountStep(dialing_db, table_names, filters, skill_id_for_campaign, cq) ==
    IF ~cq.ok THEN Failure("Invalid query filters: " \o cq.msg)
    ELSE [pc |-> "ccq_count", result |-> NoResult,
          loc |-> [dialing_db |-> dialing_db, table_names |-> table_names,
                   filters |-> filters,
                   skill_id_for_campaign |-> skill_id_for_campaign,
                   count |-> cq.value]]

TableNames(dialing_db) == <<"LVOUSR.TRANSACTION@" \o dialing_db.v>>

ToCount(dialing_db, filters, skill_id_for_campaign) ==
    CountStep(dialing_db, TableNames(dialing_db), filters, skill_id_for_campaign,
              build_count_query_for_campaign(dialing_db, filters,
                                             TableNames(dialing_db)))

\* the caller's filter names the skill: skill_id_for_campaign is taken from
\* it and the filter is used as it is
WithSkillFilter(dialing_db, filters, skill) ==
    IF ~skill.ok THEN Finish(Raised(skill.exc))
    ELSE ToCount(dialing_db, filters, skill.value)

\* after the routing lookup returned `row`: classify the link, then take the
\* skill from the filter or go and look the skills up
AfterLinks(client_id, query_filters, row) ==
    IF get_db_type(row[1]) # "oracle"
    THEN Failure("create_campaign_from_query currently only supports Oracle databases")
    ELSE IF client_id_key(query_filters) # ""
    THEN WithSkillFilter(row[1], query_filters,
             SkillFromFilter(Get(query_filters, client_id_key(query_filters))))
    ELSE [pc |-> "ccq_skills", result |-> NoResult,
          loc |-> [dialing_db |-> row[1], filters |-> query_filters]]

\* cur.fetchone() of the routing lookup
LinksRow(client_id) ==
    IF client_id \in DOMAIN ClientTable THEN T(ClientTable[client_id]) ELSE None

\* the call, up to and including the routing lookup in the config database
CcqLinks(client_id, query_filters, campaign_data, max_records, fail) ==
    /\ pc = "idle"
    /\ Len(campaigns) < MaxCampaigns
    /\ args' = [tool |-> "create_campaign_from_query", client_id |-> client_id,
                query_filters |-> query_filters,
                campaign_data |-> campaign_data, max_records |-> max_records]
    /\ log' = LogAfter("oracle", "links", get_client_db_links_query(I(client_id)),
                       fail, LinksRow(client_id))
    /\ IF fail # "none" THEN Goto(BackendError)
       ELSE IF ~Truthy(LinksRow(client_id))
       THEN Goto(Failure("No client found for client_id " \o ToString(client_id)))
       ELSE Goto(AfterLinks(client_id, query_filters, LinksRow(client_id).v))
    /\ UNCHANGED <<campaigns, tx>>

\* [int(row[0]) for row in cur.fetchall()] of the skill lookup
SkillIds(client_id) ==
    L([i \in 1..Len(SkillTable[client_id]) |-> I(SkillTable[client_id][i])])

\* after the skill lookup returned skill_ids
AfterSkills(client_id, dialing_db, filters, skill_ids) ==
    IF ~Truthy(skill_ids)
    THEN Failure("No active skills found for client_id " \o ToString(client_id))
    ELSE ToCount(dialing_db, FiltersWithSkills(filters, skill_ids), skill_ids.v[1])

\* the skill lookup, then the resolved filter and the count query
CcqSkills(fail) ==
    /\ pc = "ccq_skills"
    /\ log' = LogAfter("oracle", "skills",
                       get_skills_for_client_query(I(args.client_id)),
                       fail, SkillIds(args.client_id))
    /\ IF fail # "none" THEN Goto(BackendError)
       ELSE Goto(AfterSkills(args.client_id, loc.dialing_db, loc.filters,
                             SkillIds(args.client_id)))
    /\ UNCHANGED <<args, campaigns, tx>>

\* cur.fetchone() of the count query: one row holding the count, or no row
CountRow(norow) ==
    IF norow THEN None
    ELSE T(<<I(Len(MatchingRows(tx[loc.dialing_db.v], loc.filters)))>>)

\* record_count = row[0] if row else 0
RecordCount(row) == IF Truthy(row) THEN row.v[1].v ELSE 0

\* the campaign data is validated and the campaign INSERT is built
InsertStep(record_count, camp_data, valid) ==
    IF ~valid.ok THEN Failure("Invalid campaign data: " \o valid.msg)
    ELSE [pc |-> "ccq_campaign", result |-> NoResult,
          loc |-> [dialing_db |-> loc.dialing_db,
                   table_names |-> loc.table_names,
                   filters |-> loc.filters,
                   skill_id_for_campaign |-> loc.skill_id_for_campaign,
                   record_count |-> record_count,
                   insert |-> build_campaign_insert(camp_data)]]

\* a count step without the guard against an empty match
AfterCountNoGuard(record_count, camp_data) ==
    InsertStep(record_count, camp_data, validate_campaign_insert(camp_data))

\* after the count query returned record_count
AfterCount(record_count, camp_data) ==
    IF record_count = 0
    THEN Finish(Returned([success |-> FALSE,
             error |-> "No records match the query criteria. Campaign not created.",
             records_found |-> 0]))
    ELSE InsertStep(record_count, camp_data, validate_campaign_insert(camp_data))

\* the count query; on a non-zero count the campaign data is prepared and
\* validated and the campaign INSERT is built
CcqCount(fail, norow) ==
    /\ pc = "ccq_count"
    /\ log' = LogAfter("oracle", "count", loc.count, fail, CountRow(norow))
    /\ IF fail # "none" THEN Goto(BackendError)
       ELSE Goto(AfterCount(RecordCount(CountRow(norow)),
                            PrepareCampData(args.campaign_data, args.client_id,
                                            loc.skill_id_for_campaign)))
    /\ UNCHANGED <<args, campaigns, tx>>

\* a handler that goes on with an id other than the one the INSERT returned
AfterCampaign_other_id(campaign_id, source) ==
    IF ~source.ok THEN Finish(Raised(source.exc))
    ELSE [pc |-> "ccq_tx", result |-> NoResult,
          loc |-> [dialing_db |-> loc.dialing_db,
                   filters |-> loc.filters,
                   skill_id_for_campaign |-> loc.skill_id_for_campaign,
                   record_count |-> loc.record_count,
                   campaign_id |-> campaign_id + 1,
                   source |-> source.value,
                   tx_insert |-> build_transaction_insert_from_select(
                                    loc.dialing_db, campaign_id + 1,
                                    source.value.sql, source.value.params)]]

\* after the campaign row is committed the derived INSERT is built; an
\* exception of its builders leaves the handler
AfterCampaign(campaign_id, source) ==
    IF ~source.ok THEN Finish(Raised(source.exc))
    ELSE [pc |-> "ccq_tx", result |-> NoResult,
          loc |-> [dialing_db |-> loc.dialing_db,
                   filters |-> loc.filters,
                   skill_id_for_campaign |-> loc.skill_id_for_campaign,
                   record_count |-> loc.record_count,
                   campaign_id |-> campaign_id,
                   source |-> source.value,
                   tx_insert |-> build_transaction_insert_from_select(
                                    loc.dialing_db, campaign_id,
                                    source.value.sql, source.value.params)]]

\* a campaign step that builds the source select from the caller's filter
\* instead of the resolved one
CcqCampaign_caller_filter(fail) ==
    /\ pc = "ccq_campaign"
    /\ log' = LogAfter("oracle", "campaign_insert", loc.insert, fail,
                       I(NextCampaignId))
    /\ IF fail # "none"
       THEN Goto(BackendError) /\ UNCHANGED campaigns
       ELSE /\ campaigns' = Append(campaigns, [campaign_id |-> NextCampaignId,
                                               data |-> loc.insert.params])
            /\ Goto(AfterCampaign(NextCampaignId,
                        build_source_query_for_campaign(
                            args.query_filters, loc.table_names,
                            args.max_records)))
    /\ UNCHANGED <<args, tx>>

\* the campaign INSERT and its commit, then the derived INSERT is built
CcqCampaign(fail) ==
    /\ pc = "ccq_campaign"
    /\ log' = LogAfter("oracle", "campaign_insert", loc.insert, fail,
                       I(NextCampaignId))
    /\ IF fail # "none"
       THEN Goto(BackendError) /\ UNCHANGED campaigns
       ELSE /\ campaigns' = Append(campaigns, [campaign_id |-> NextCampaignId,
                                               data |-> loc.insert.params])
            /\ Goto(AfterCampaign(NextCampaignId,
                        build_source_query_for_campaign(
                            loc.filters, loc.table_names, args.max_records)))
    /\ UNCHANGED <<args, tx>>

\* the rows the derived INSERT ... SELECT copies, each with the new campaign id
DerivedRows(rows, campaign_id) ==
    [i \in 1..Len(rows) |-> [rows[i] EXCEPT !.CAMPAIGN_ID = I(campaign_id)]]

SourceRows ==
    FetchFirst(MatchingRows(tx[loc.dialing_db.v], loc.filters), args.max_records)

\* a failure of the derived INSERT that deletes the campaign it was for
TxFailsCompensating ==
    /\ result' = Raised("BackendError")
    /\ campaigns' = SubSeq(campaigns, 1, Len(campaigns) - 1)
    /\ UNCHANGED tx

\* a failure of the derived INSERT that is returned as a result naming the
\* campaign
TxFails_returned ==
    /\ result' = Returned([success |-> FALSE,
                           error |-> "Derived insert failed",
                           campaign_id |-> loc.campaign_id])
    /\ UNCHANGED <<tx, campaigns>>

\* the derived INSERT failed: the exception leaves the handler, and nothing
\* the call has committed is undone
TxFails ==
    /\ result' = Raised("BackendError")
    /\ UNCHANGED <<tx, campaigns>>

\* the derived INSERT is committed and the success result is returned
TxCommits(rows) ==
    /\ tx' = [tx EXCEPT ![loc.dialing_db.v] = @ \o DerivedRows(rows, loc.campaign_id)]
    /\ result' = Returned(
           [success |-> TRUE, campaign_id |-> loc.campaign_id,
            client_id |-> args.client_id,
            skill_id |-> loc.skill_id_for_campaign,
            records_found |-> loc.record_count,
            records_inserted |-> Len(rows),
            query_filters |-> loc.filters])
    /\ UNCHANGED campaigns

\* the derived INSERT ... SELECT and its commit, then the success result
CcqTx(fail) ==
    /\ pc = "ccq_tx"
    /\ log' = LogAfter("oracle", "tx_insert", loc.tx_insert, fail,
                       I(Len(SourceRows)))
    /\ pc' = "done"
    /\ loc' = None
    /\ IF fail # "none" THEN TxFails ELSE TxCommits(SourceRows)
    /\ UNCHANGED args

---------------------------------------------------------------------------
(* The Postgres database and the tables behind the selects *)

\* what a table holds, as the rows a cursor returns (column name -> value)
SampleRows(table) ==
    CASE table = "contact" ->
            <<D(<<<<"lvaccount_id", S("A-1")>>, <<"client_id", I(7)>>,
                  <<"account", S("1001")>>, <<"ssn", S("123-45-6789")>>>>)>>
      [] table = "contact_details" ->
            <<D(<<<<"lvaccount_id", S("A-1")>>, <<"client_id", I(7)>>,
                  <<"account", S("1001")>>, <<"col1", S("gold")>>>>)>>
      [] OTHER ->
            <<D(<<<<"client_id", I(21)>>, <<"outcome", S("FAILED")>>,
                  <<"campaign_id", None>>>>)>>

\* a row cut down to the projected columns ("*" keeps it whole)
ProjectRow(row, select_cols) ==
    IF select_cols = <<"*">> THEN row
    ELSE D([i \in 1..Len(select_cols) |->
              <<select_cols[i], Get(row, select_cols[i])>>])

\* cur.fetchall(): the rows the database answers with, none when `found`
\* is false
FetchAll(table, select_cols, found) ==
    IF found
    THEN L([i \in 1..Len(SampleRows(table)) |->
              ProjectRow(SampleRows(table)[i], select_cols)])
    ELSE L(<<>>)

\* where a `with get_connection()` block that sets a statement timeout can
\* fail: acquiring the connection, the SET, the query
PgFails == {"none", "connect", "timeout", "execute"}

SetTimeout(ms) ==
    [sql |-> "SET statement_timeout = " \o ToString(ms), params |-> <<>>]

\* the log after a Postgres block that sets the timeout `ms` and runs q
PgLogAfter(kind, q, ms, fail, fetched) ==
    CASE fail = "connect" -> log
      [] fail = "timeout" ->
            Append(log, Stmt("postgres", "set_timeout", SetTimeout(ms), "error", None))
      [] fail = "execute" ->
            log \o <<Stmt("postgres", "set_timeout", SetTimeout(ms), "ok", None),
                     Stmt("postgres", kind, q, "error", None)>>
      [] OTHER ->
            log \o <<Stmt("postgres", "set_timeout", SetTimeout(ms), "ok", None),
                     Stmt("postgres", kind, q, "ok", fetched)>>

Tables ==
    { S("contact"), S("contact_details"), S("campaign"), S("transaction"),
      S("Contact") }

SelectFilters ==
    { None,
      D(<<<<"client_id", I(7)>>>>),
      D(<<<<"col1", D(<<<<"op", S("like")>>, <<"value", S("g%")>>>>)>>>>),
      D(<<<<"account", S("1001")>>, <<"bogus", I(1)>>>>),
      D(<<<<"client_id", D(<<<<"op", S("in")>>, <<"value", L(<<>>)>>>>)>>>>) }

SelectColumns ==
    { None,
      L(<<S("lvaccount_id"), S(" account ")>>),
      L(<<S("col1")>>),
      L(<<S("account"), S("bogus")>>),
      L(<<S("ssn; DROP TABLE contact")>>) }

Limits == {0, 50, 5000}
Offsets == {-5, 0}

OrderBys ==
    { None, S("account desc"), S("col1"), S("bogus"), S("account sideways") }

---------------------------------------------------------------------------
(* tools.py: select_records, count_records *)

\* the `with get_connection()` block of select_records and what it returns;
\* an exception of build_select leaves the handler before the block
RunSelect(q, table, columns, fail, found) ==
    IF ~q.ok
    THEN log' = log /\ result' = Raised(q.exc)
    ELSE /\ log' = PgLogAfter("select", q.value, 10000, fail,
                      FetchAll(table.v, query_validate_columns(table.v, columns).value,
                               found))
         /\ result' = IF fail # "none" THEN Raised("BackendError")
                      ELSE Returned(FetchAll(table.v,
                               query_validate_columns(table.v, columns).value, found))

select_records(table, filters, columns, limit, offset, order_by, fail, found) ==
    /\ pc = "idle"
    /\ args' = [tool |-> "select_records", table |-> table, filters |-> filters,
                columns |-> columns, limit |-> limit, offset |-> offset,
                order_by |-> order_by]
    /\ RunSelect(build_select(table, filters, columns, limit, offset, order_by),
                 table, columns, fail, found)
    /\ pc' = "done"
    /\ loc' = None
    /\ UNCHANGED <<campaigns, tx>>

\* cur.fetchone() of the count statement
CountAnswer(norow, n) == IF norow THEN None ELSE D(<<<<"count", I(n)>>>>)

\* int(row["count"]) if row else 0
CountOf(row) == IF Truthy(row) THEN Get(row, "count") ELSE I(0)

\* the `with get_connection()` block of count_records: no timeout is set
RunCount(q, fail, row) ==
    IF ~q.ok
    THEN log' = log /\ result' = Raised(q.exc)
    ELSE /\ log' = LogAfter("postgres", "count", q.value, fail, row)
         /\ result' = IF fail # "none" THEN Raised("BackendError")
                      ELSE Returned(CountOf(row))

count_records(table, filters, fail, norow, n) ==
    /\ pc = "idle"
    /\ args' = [tool |-> "count_records", table |-> table, filters |-> filters]
    /\ RunCount(build_count(table, filters), fail, CountAnswer(norow, n))
    /\ pc' = "done"
    /\ loc' = None
    /\ UNCHANGED <<campaigns, tx>>

---------------------------------------------------------------------------
(* tools.py: select_transactions, select_contact *)

RoutedClientIds == 0..5

RoutedFilters ==
    { None,
      D(<<<<"client_id", I(21)>>>>),
      D(<<<<" Outcome ", L(<<S("like"), S("F%")>>)>>>>),
      D(<<<<"bogus", I(1)>>>>),
      D(<<<<"outcome", D(<<<<"op", S("not_like")>>, <<"value", S("S%")>>>>)>>>>) }

RoutedColumns ==
    { None,
      L(<<S("Client_ID"), S("outcome")>>),
      L(<<S("not_a_col")>>),
      L(<<S("1; DROP TABLE x")>>) }

RoutedOrderBys == { None, S("client_id desc"), S("bogus") }

\* TX_ARCHIVE_COUNT as get_transaction_archive_count() gives it
ArchiveCounts == 0..2
\* date.today() as <<year, month, day>>
Todays == { <<2026, 1, 15>>, <<2026, 11, 2>> }

\* the routed data query of the handler: the backend it runs on, the
\* timeout set before it (0: none is set), and the statement
DataStep(backend, ms, q) ==
    IF ~q.ok THEN Finish(Raised(q.exc))
    ELSE [pc |-> "routed_data", result |-> NoResult,
          loc |-> [backend |-> backend, ms |-> ms, query |-> q.value]]

\* select_transactions after the routing lookup returned `row`
TransactionsAfterLinks(row, filters, columns, limit, order_by, table_names) ==
    IF ~table_names.ok THEN Finish(Raised(table_names.exc))
    ELSE IF get_db_type(row[1]) = "postgres"
    THEN DataStep("postgres", 30000,
             build_postgres_transaction_union(table_names.value, filters,
                                              columns, limit, order_by))
    ELSE DataStep("oracle", 0,
             build_transaction_union(table_names.value, filters, columns,
                                     limit, order_by))

\* select_contact that sends every client to the Oracle branch
ContactAfterLinks_oracle_always(row, filters, columns, limit, order_by) ==
    DataStep("oracle", 0,
             build_oracle_contact_select(row[1], filters, columns, limit,
                                         order_by))

\* select_contact after the routing lookup returned `row`
ContactAfterLinks(row, filters, columns, limit, order_by) ==
    IF get_db_type(row[1]) = "postgres"
    THEN DataStep("postgres", 10000,
             build_postgres_contact_select(filters, columns, limit, order_by))
    ELSE DataStep("oracle", 0,
             build_oracle_contact_select(row[1], filters, columns, limit,
                                         order_by))

\* the client_id check and the routing lookup of both routed tools
RoutedLinks(tool, client_id, filters, columns, limit, order_by, fail, next) ==
    /\ pc = "idle"
    /\ args' = [tool |-> tool, client_id |-> client_id, filters |-> filters,
                columns |-> columns, limit |-> limit, order_by |-> order_by]
    /\ IF client_id <= 0
       THEN log' = log /\ Goto(Finish(Raised("ValueError")))
       ELSE /\ log' = LogAfter("oracle", "links",
                               get_client_db_links_query(I(client_id)), fail,
                               LinksRow(client_id))
            /\ IF fail # "none" THEN Goto(BackendError)
               ELSE IF ~Truthy(LinksRow(client_id))
               THEN Goto(Finish(Raised("ValueError")))
               ELSE Goto(next)
    /\ UNCHANGED <<campaigns, tx>>

select_transactions(client_id, filters, columns, limit, order_by, archive_count, today, fail) ==
    RoutedLinks("select_transactions", client_id, filters, columns, limit,
                order_by, fail,
                TransactionsAfterLinks(
                    LinksRow(client_id).v, filters, columns, limit, order_by,
                    resolve_transaction_tables(LinksRow(client_id).v[1],
                                               LinksRow(client_id).v[2],
                                               archive_count, today)))

select_contact(client_id, filters, columns, limit, order_by, fail) ==
    RoutedLinks("select_contact", client_id, filters, columns, limit,
                order_by, fail,
                ContactAfterLinks(LinksRow(client_id).v, filters, columns,
                                  limit, order_by))

\* the table a routed tool reads
RoutedTable == IF args.tool = "select_contact" THEN "contact" ELSE "transaction"

\* the rows a routed data query returns: cur.fetchall() on Postgres,
\* fetch_all_dicts(cur) on Oracle
RoutedRows(found) == FetchAll(RoutedTable, <<"*">>, found)

\* the data query of a routed tool on the backend the handler chose
RoutedData(fail, found) ==
    /\ pc = "routed_data"
    /\ loc.backend = "postgres" \/ fail # "timeout"
    /\ log' = IF loc.backend = "postgres"
              THEN PgLogAfter("data", loc.query, loc.ms, fail, RoutedRows(found))
              ELSE LogAfter("oracle", "data", loc.query, fail, RoutedRows(found))
    /\ result' = IF fail # "none" THEN Raised("BackendError")
                 ELSE Returned(RoutedRows(found))
    /\ pc' = "done"
    /\ loc' = None
    /\ UNCHANGED <<args, campaigns, tx>>

---------------------------------------------------------------------------
Init ==
    /\ pc = "idle"
    /\ args = None
    /\ loc = None
    /\ log = <<>>
    /\ result = NoResult
    /\ campaigns = <<>>
    /\ tx = InitialTx

\* the call is over: its result has gone to the caller and nothing of it is
\* kept but what it committed in the databases
Return ==
    /\ pc = "done"
    /\ pc' = "idle"
    /\ args' = None
    /\ loc' = None
    /\ log' = <<>>
    /\ result' = NoResult
    /\ UNCHANGED <<campaigns, tx>>

CreateCampaignFromQuery ==
    \/ /\ pc = "idle"
       /\ \E client_id \in ClientIds, query_filters \in QueryFilters,
             campaign_data \in CampaignData, max_records \in MaxRecordsArgs,
             fail \in ReadFails :
               CcqLinks(client_id, query_filters, campaign_data, max_records, fail)
    \/ \E fail \in ReadFails : CcqSkills(fail)
    \/ \E fail \in ReadFails, norow \in BOOLEAN : CcqCount(fail, norow)
    \/ \E fail \in WriteFails : CcqCampaign(fail)
    \/ \E fail \in WriteFails : CcqTx(fail)

Next == CreateCampaignFromQuery \/ Return

Spec == Init /\ [][Next]_vars

\* the single-table tools
SelectRecords ==
    /\ pc = "idle"
    /\ \E table \in Tables, filters \in SelectFilters, columns \in SelectColumns,
       limit \in Limits, offset \in Offsets, order_by \in OrderBys,
       fail \in PgFails, found \in BOOLEAN :
        select_records(table, filters, columns, limit, offset, order_by, fail, found)

CountRecords ==
    /\ pc = "idle"
    /\ \E table \in Tables, filters \in SelectFilters, fail \in ReadFails,
       norow \in BOOLEAN, n \in {0, 3} :
        count_records(table, filters, fail, norow, n)

NextSelect == SelectRecords \/ CountRecords \/ Return

SpecSelect == Init /\ [][NextSelect]_vars

\* the routed tools
SelectTransactions ==
    /\ pc = "idle"
    /\ \E client_id \in RoutedClientIds, filters \in RoutedFilters,
       columns \in RoutedColumns, limit \in Limits, order_by \in RoutedOrderBys,
       archive_count \in ArchiveCounts, today \in Todays, fail \in ReadFails :
        select_transactions(client_id, filters, columns, limit, order_by,
                            archive_count, today, fail)

SelectContact ==
    /\ pc = "idle"
    /\ \E client_id \in RoutedClientIds, filters \in RoutedFilters,
       columns \in RoutedColumns, limit \in Limits, order_by \in RoutedOrderBys,
       fail \in ReadFails :
        select_contact(client_id, filters, columns, limit, order_by, fail)

RoutedDataQuery == \E fail \in PgFails, found \in BOOLEAN : RoutedData(fail, found)

NextRouted == SelectTransactions \/ SelectContact \/ RoutedDataQuery \/ Return

SpecRouted == Init /\ [][NextRouted]_vars

---------------------------------------------------------------------------
(* guardrails.py: the validators and the redaction applied to inputs *)

\* what a caller of a function gets: its value, or the exception it raised
Outcome(r) == IF r.ok THEN Returned(r.value) ELSE Raised(r.exc)

\* a function is applied to `input` and gives r
Applied(function, input, r) ==
    /\ pc = "idle"
    /\ args' = [tool |-> function, input |-> input]
    /\ result' = Outcome(r)
    /\ pc' = "done"
    /\ UNCHANGED <<loc, log, campaigns, tx>>

LimitArgs ==
    {None, S("10"), L(<<>>)}
        \cup {I(n) : n \in (-2..120) \cup {9999, 10000, 10001, 50000}}

OffsetArgs ==
    {None, S("0"), L(<<>>)}
        \cup {I(n) : n \in (-3..60) \cup {99999, 100000, 100001, 200000}}

RowKeys ==
    {"ssn", "SSN", "Dob", "token", "password_hash", "account", "name", "ssn "}
RowValues == {S("123-45-6789"), I(7), None, REDACTED}

\* rows of one and of two columns
Rows ==
    {D(<<<<k, v>>>>) : k \in RowKeys, v \in RowValues}
        \cup {D(<<<<k[1], v[1]>>, <<k[2], v[2]>>>>) :
                k \in {x \in RowKeys \X RowKeys : x[1] # x[2]},
                v \in RowValues \X {S("123-45-6789"), I(7)}}

RowLists ==
    {L(<<>>)}
        \cup {L(<<D(<<<<k, S("x")>>>>)>>) : k \in RowKeys}
        \cup {L(<<D(<<<<k[1], S("x")>>>>), D(<<<<k[2], I(1)>>, <<"name", S("n")>>>>)>>) :
                k \in RowKeys \X {"SSN", "account"}}

ClientIdEntries ==
    {<<>>, <<<<"CLIENT_ID", I(1)>>>>}
        \cup {<<<<"client_id", v>>>> : v \in {I(1), I(0), I(-3), S("1"), None}}

ColumnEntries ==
    {<<>>, <<<<"filename", S("a.csv")>>>>, <<<<"Filename", S("a.csv")>>>>,
     <<<<"campaign_id", I(9)>>>>, <<<<"SKILL_ID", I(5)>>>>}

AmOptionEntries ==
    {<<>>, <<<<"AM_OPTION", S("SOMETIMES")>>>>}
        \cup {<<<<"am_option", v>>>> : v \in {None, S("NO_AM"), S("no_am"), I(1)}}

ContactSourceEntries ==
    {<<>>} \cup {<<<<"contact_source", v>>>> :
                    v \in {None, S("CONTACT"), S("OTHER")}}

CampaignRecords ==
    {None, L(<<S("client_id")>>), S("client_id")}
        \cup {D(a \o b \o c \o d) :
                a \in ClientIdEntries, b \in ColumnEntries,
                c \in AmOptionEntries, d \in ContactSourceEntries}

ValidateLimit ==
    /\ pc = "idle"
    /\ \E limit \in LimitArgs :
          Applied("validate_limit", limit, validate_limit(limit))

ValidateOffset ==
    /\ pc = "idle"
    /\ \E offset \in OffsetArgs :
          Applied("validate_offset", offset, validate_offset(offset))

RedactRow ==
    /\ pc = "idle"
    /\ \E row \in Rows : Applied("redact_row", row, Ok(redact_row(row)))

RedactResults ==
    /\ pc = "idle"
    /\ \E rows \in RowLists :
          Applied("redact_results", rows, Ok(redact_results(rows)))

ValidateCampaignInsert ==
    /\ pc = "idle"
    /\ \E data \in CampaignRecords :
          Applied("validate_campaign_insert", data,
                  validate_campaign_insert(data))

NextGuardrails ==
    \/ ValidateLimit
    \/ ValidateOffset
    \/ RedactRow
    \/ RedactResults
    \/ ValidateCampaignInsert
    \/ Return

SpecGuardrails == Init /\ [][NextGuardrails]_vars

---------------------------------------------------------------------------
(* The filter translators applied to filters: query._validate_filters,    *)
(* transaction._validate_filters, transaction._validate_filters_postgres  *)

Translators ==
    {"query_validate_filters", "tx_validate_filters", "validate_filters_postgres"}

\* what the translator gives for the filters on the table
Translate(translator, table, filters) ==
    CASE translator = "query_validate_filters" ->
            query_validate_filters(table, filters, "")
      [] translator = "tx_validate_filters" -> tx_validate_filters(filters, table)
      [] OTHER -> validate_filters_postgres(filters, table)

\* the operators of the filter language, and other operator texts
Operators ==
    {"eq", "neq", "gt", "gte", "lt", "lte", "like", "not_like", "ilike",
     "not_ilike", "in", "not_in", "between", "is_null", "is_not_null"}
OperatorTexts == Operators \cup {"=", "<>", "IN", "regex"}

Operands ==
    {None, I(5), S("A%"), S("2024-01-15"), L(<<>>), L(<<I(1)>>),
     L(<<I(1), I(2)>>), L(<<I(1), I(2), I(3)>>)}

\* the three ways to write a filter value
SequenceForm(op, operand) == L(<<S(op), operand>>)
DescriptorForm(op, operand) == D(<<<<"op", S(op)>>, <<"value", operand>>>>)
FilterValues ==
    Operands
        \cup {SequenceForm(op, x) : op \in OperatorTexts, x \in Operands}
        \cup {DescriptorForm(op, x) : op \in OperatorTexts, x \in Operands}
        \cup {D(<<<<"op", S(op)>>>>) : op \in OperatorTexts}

FilterColumns == {"account", "client_id", " Account ", "bogus"}

\* entries of filters with more than one entry
FilterEntries ==
    {<<"account", S("1001")>>,
     <<"account", DescriptorForm("is_null", None)>>,
     <<"client_id", DescriptorForm("in", L(<<I(1), I(2)>>))>>,
     <<"client_id", DescriptorForm("gt", I(5))>>,
     <<"first_name", SequenceForm("like", S("A%"))>>,
     <<"state", DescriptorForm("between", L(<<S("AL"), S("AZ")>>))>>,
     <<"city", DescriptorForm("regex", S("^A"))>>}

\* filters of one entry, and of two and three entries on different columns
Filters ==
    {None, D(<<>>)}
        \cup {D(<<<<c, v>>>>) : c \in FilterColumns, v \in FilterValues}
        \cup {D(<<e[1], e[2]>>) :
                e \in {x \in FilterEntries \X FilterEntries : x[1][1] # x[2][1]}}
        \cup {D(<<e[1], e[2], e[3]>>) :
                e \in {x \in FilterEntries \X FilterEntries \X FilterEntries :
                          /\ x[1][1] = "state"
                          /\ x[2][1] # x[3][1]
                          /\ x[2][1] # "state" /\ x[3][1] # "state"}}

\* a translator is applied to a filter on the contact table
Translated(translator, filters) ==
    /\ pc = "idle"
    /\ args' = [tool |-> translator, table |-> "contact", filters |-> filters]
    /\ result' = Outcome(Translate(translator, "contact", filters))
    /\ pc' = "done"
    /\ UNCHANGED <<loc, log, campaigns, tx>>

TranslateQuery ==
    /\ pc = "idle"
    /\ \E filters \in Filters : Translated("query_validate_filters", filters)

TranslateOracle ==
    /\ pc = "idle"
    /\ \E filters \in Filters : Translated("tx_validate_filters", filters)

TranslatePostgres ==
    /\ pc = "idle"
    /\ \E filters \in Filters : Translated("validate_filters_postgres", filters)

\* build_select(table, filters) with every other parameter at its default
BuildSelectDefaults ==
    /\ pc = "idle"
    /\ \E filters \in Filters :
          /\ args' = [tool |-> "build_select", table |-> "contact",
                      filters |-> filters]
          /\ result' = Outcome(build_select(S("contact"), filters, None, 100, 0,
                                            None))
    /\ pc' = "done"
    /\ UNCHANGED <<loc, log, campaigns, tx>>

NextFilters ==
    \/ TranslateQuery
    \/ TranslateOracle
    \/ TranslatePostgres
    \/ BuildSelectDefaults
    \/ Return

SpecFilters == Init /\ [][NextFilters]_vars

---------------------------------------------------------------------------
(* The statement builders, the table resolver and the classifier applied *)
(* to inputs                                                             *)

\* table lists as resolve_transaction_tables gives them, and the empty list
TableLists ==
    { <<>>,
      <<"LVOUSR.TRANSACTION@lvstg4a">>,
      <<"LVOUSR.TRANSACTION@lvstg4a", "LVOUSR.TRANSACTION_0126@lvrpt">>,
      <<"LVOUSR.TRANSACTION@lvstg4a", "LVOUSR.TRANSACTION_0126@lvrpt",
        "LVOUSR.TRANSACTION_1225@lvrpt">> }

UnionFilters ==
    { None,
      D(<<<<"outcome", S("FAILED")>>>>),
      D(<<<<"client_id", SequenceForm("in", L(<<I(21), I(22)>>))>>>>),
      D(<<<<"account", DescriptorForm("between", L(<<S("1"), S("5")>>))>>,
          <<"outcome", DescriptorForm("is_null", None)>>,
          <<"client_id", I(21)>>>>),
      D(<<<<"bogus", I(1)>>>>) }

\* the order_by arguments of the select builders
BuilderOrderBys ==
    { None, S("account"), S("account desc"), S("Account Desc"),
      S("outcome asc"), S("first_name"), S("col1 DESC"), S("bogus"),
      S("account sideways"), S("account; DROP TABLE contact"),
      S("account desc nulls last"), S("   ") }

BuildTransactionUnion ==
    /\ pc = "idle"
    /\ \E table_names \in TableLists, filters \in UnionFilters,
          limit \in Limits, order_by \in BuilderOrderBys :
            Applied("build_transaction_union",
                    [table_names |-> table_names, filters |-> filters,
                     limit |-> limit, order_by |-> order_by],
                    build_transaction_union(table_names, filters, None, limit,
                                            order_by))

BuildPostgresTransactionUnion ==
    /\ pc = "idle"
    /\ \E table_names \in TableLists, filters \in UnionFilters,
          limit \in Limits, order_by \in BuilderOrderBys :
            Applied("build_postgres_transaction_union",
                    [table_names |-> table_names, filters |-> filters,
                     limit |-> limit, order_by |-> order_by],
                    build_postgres_transaction_union(table_names, filters, None,
                                                     limit, order_by))

\* database links as the client row holds them
DialingDbs == { None, S(""), S("lvstg4a") }
ReportingDbs == { None, S(""), S("lvrpt") }
\* TX_ARCHIVE_COUNT, and the reference date as <<year, month, day>>
ResolverArchiveCounts == 0..MaxArchive
ReferenceDates ==
    { <<2026, 2, 18>>, <<2026, 1, 15>>, <<2025, 12, 31>>, <<2026, 11, 2>>,
      <<2000, 3, 1>> }

ResolveTransactionTables ==
    /\ pc = "idle"
    /\ \E dialing_db \in DialingDbs, reporting_db \in ReportingDbs,
          archive_count \in ResolverArchiveCounts, today \in ReferenceDates :
            Applied("resolve_transaction_tables",
                    [dialing_db |-> dialing_db, reporting_db |-> reporting_db,
                     archive_count |-> archive_count, today |-> today],
                    LET r == resolve_transaction_tables(dialing_db, reporting_db,
                                                        archive_count, today)
                    IN  IF r.ok THEN Ok(L([i \in 1..Len(r.value) |->
                                              S(r.value[i])]))
                        ELSE r)

DbLinks ==
    { None, S(""), S("lvstg4a"), S("lvstg4b"), S("LVSTG4B"), S("lv2Stg4B.world"),
      S("stg4"), S("stg4 b"), S("b4gts"), S("lvrpt") }

GetDbType ==
    /\ pc = "idle"
    /\ \E db_link \in DbLinks :
          Applied("get_db_type", db_link, Ok(S(get_db_type(db_link))))

BuildSelect ==
    /\ pc = "idle"
    /\ \E table \in {"contact", "contact_details"},
          filters \in {None, D(<<<<"account", S("1001")>>>>)},
          order_by \in BuilderOrderBys :
            Applied("build_select",
                    [table |-> table, filters |-> filters,
                     order_by |-> order_by],
                    build_select(S(table), filters, None, 100, 0, order_by))

BuildOracleContactSelect ==
    /\ pc = "idle"
    /\ \E dialing_db \in DialingDbs,
          filters \in {None, D(<<<<"account", S("1001")>>>>)},
          order_by \in BuilderOrderBys :
            Applied("build_oracle_contact_select",
                    [dialing_db |-> dialing_db, filters |-> filters,
                     order_by |-> order_by],
                    build_oracle_contact_select(dialing_db, filters, None, 100,
                                                order_by))

BuildPostgresContactSelect ==
    /\ pc = "idle"
    /\ \E filters \in {None, D(<<<<"account", S("1001")>>>>)},
          order_by \in BuilderOrderBys :
            Applied("build_postgres_contact_select",
                    [filters |-> filters, order_by |-> order_by],
                    build_postgres_contact_select(filters, None, 100, order_by))

\* the arguments of the joined select
JoinedContactColumns ==
    { None, L(<<S("account"), S(" client_id ")>>),
      L(<<S("account"), S("account")>>), L(<<S("*")>>), L(<<S("bogus")>>) }
JoinedDetailsColumns ==
    { None, L(<<S("account"), S("col1")>>), L(<<S("col200")>>) }
JoinedContactFilters == { None, D(<<<<"account", S("1001")>>>>) }
JoinedDetailsFilters ==
    { None,
      D(<<<<"col1", DescriptorForm("is_null", None)>>>>),
      D(<<<<"client_id", DescriptorForm("in", L(<<I(1), I(2)>>))>>>>) }

BuildContactWithDetailsSelect ==
    /\ pc = "idle"
    /\ \E contact_filters \in JoinedContactFilters,
          details_filters \in JoinedDetailsFilters,
          contact_columns \in JoinedContactColumns,
          details_columns \in JoinedDetailsColumns,
          order_by \in BuilderOrderBys :
            Applied("build_contact_with_details_select",
                    [contact_filters |-> contact_filters,
                     details_filters |-> details_filters,
                     contact_columns |-> contact_columns,
                     details_columns |-> details_columns,
                     order_by |-> order_by],
                    build_contact_with_details_select(
                        contact_filters, details_filters, contact_columns,
                        details_columns, 100, 0, order_by))

NextBuilders ==
    \/ BuildTransactionUnion
    \/ BuildPostgresTransactionUnion
    \/ ResolveTransactionTables
    \/ GetDbType
    \/ BuildSelect
    \/ BuildOracleContactSelect
    \/ BuildPostgresContactSelect
    \/ BuildContactWithDetailsSelect
    \/ Return

SpecBuilders == Init /\ [][NextBuilders]_vars

---------------------------------------------------------------------------
(* What a call shows: the statements it handed to the backends, what they *)
(* gave back, and its outcome                                             *)

\* a statement of this kind was handed to a backend in the current call
Executed(kind) == \E i \in 1..Len(log) : log[i].kind = kind

\* a statement of this kind ran and gave `fetched` to the handler
Answered(kind, fetched) ==
    \E i \in 1..Len(log) :
        log[i].kind = kind /\ log[i].outcome = "ok" /\ log[i].fetched = fetched

\* the call is over and returned success=false with an error text
ExplicitFailure ==
    /\ pc = "done"
    /\ result.k = "return"
    /\ result.value.success = FALSE
    /\ "error" \in DOMAIN result.value
    /\ result.value.error # ""

\* the call is over and returned success=true
ReturnedSuccess ==
    pc = "done" /\ result.k = "return" /\ result.value.success = TRUE

\* no count query, no campaign INSERT and no derived INSERT in the call
NoDataStatement ==
    ~Executed("count") /\ ~Executed("campaign_insert") /\ ~Executed("tx_insert")

\* the caller's filter has a key that is client_id in some letter case
HasClientIdKey(filters) ==
    \E i \in 1..Len(filters.v) : upper(filters.v[i][1]) = "CLIENT_ID"

\* the ids of the campaigns whose INSERT the current call committed
CommittedCampaignIds ==
    {log[i].fetched.v : i \in {j \in 1..Len(log) :
        log[j].kind = "campaign_insert" /\ log[j].outcome = "ok"}}

\* derived rows of campaign `id` in the dialing databases
DerivedRowsOf(id) ==
    UNION {{<<link, i>> : i \in {j \in 1..Len(tx[link]) :
                                 tx[link][j].CAMPAIGN_ID = I(id)}} :
           link \in DOMAIN tx}

---------------------------------------------------------------------------
(* create_campaign_from_query: the count guard *)

CountReportedZero ==
    Answered("count", None) \/ Answered("count", T(<<I(0)>>))

\* C1: whenever the count query reports zero matching rows, or returns no
\* row, the call returns success=false with records_found=0, and neither the
\* campaign INSERT nor the derived INSERT is executed in that call.
C1_ZeroCountNoInsert ==
    CountReportedZero =>
        /\ pc = "done"
        /\ result.k = "return"
        /\ result.value.success = FALSE
        /\ "records_found" \in DOMAIN result.value
        /\ result.value.records_found = 0
        /\ ~Executed("campaign_insert")
        /\ ~Executed("tx_insert")

\* a call whose count query found no matching row
C1_Witness ==
    pc = "done" /\ Answered("count", T(<<I(0)>>)) /\ result.k = "return"

---------------------------------------------------------------------------
(* create_campaign_from_query: routing failures *)

NoClientRow == Answered("links", None)

\* the routing lookup gave a row whose dialing_db holds the Postgres marker
RoutedToPostgres ==
    \E i \in 1..Len(log) :
        /\ log[i].kind = "links" /\ log[i].outcome = "ok"
        /\ Truthy(log[i].fetched)
        /\ IsStr(log[i].fetched.v[1])
        /\ Contains(lower(log[i].fetched.v[1].v), "stg4b")

NoSkillsFound == Answered("skills", L(<<>>))

\* C2: each routing failure (no client row; a dialing_db classified as
\* postgres; no skills for the client when the filter has no client_id key)
\* ends the call with success=false and an explicit error, with no count
\* query, campaign INSERT or derived INSERT executed in that call; the
\* postgres failure comes right after the routing lookup, before any skill
\* lookup.
C2_RoutingFailures ==
    /\ NoClientRow => (ExplicitFailure /\ NoDataStatement /\ ~Executed("skills"))
    /\ RoutedToPostgres =>
          (ExplicitFailure /\ NoDataStatement /\ ~Executed("skills"))
    /\ NoSkillsFound => (ExplicitFailure /\ NoDataStatement)

\* a call for a client whose dialing_db is a Postgres link
C2_Witness ==
    RoutedToPostgres /\ ExplicitFailure /\ Len(log) = 1

---------------------------------------------------------------------------
(* create_campaign_from_query: the resolved filter *)

\* the handler holds the resolved filter
Resolved == pc \in {"ccq_count", "ccq_campaign", "ccq_tx"}

\* the caller's filter with one more entry, client_id = value
WithClientId(filters, value) == D(Append(filters.v, <<"client_id", value>>))

\* the entry the skill lookup adds: the one skill, or all of them in an IN
SkillEntry(skill_ids) ==
    IF Len(skill_ids.v) = 1 THEN skill_ids.v[1]
    ELSE D(<<<<"op", S("in")>>, <<"value", skill_ids>>>>)

\* C3: if query_filters has a key equal to client_id in any letter case, the
\* filter is used verbatim and no skill lookup is executed; otherwise the
\* skills are looked up and the filter gains client_id = s for the one skill
\* s, or client_id IN (all skills, in lookup order) for more than one; every
\* other entry of query_filters is kept unchanged.
C3_ResolvedFilter ==
    /\ (pc # "idle" /\ HasClientIdKey(args.query_filters)) => ~Executed("skills")
    /\ Resolved =>
          IF HasClientIdKey(args.query_filters)
          THEN loc.filters = args.query_filters
          ELSE /\ Answered("skills", SkillIds(args.client_id))
               /\ loc.filters = WithClientId(args.query_filters,
                                             SkillEntry(SkillIds(args.client_id)))

\* a resolved filter for a client with more than one skill
C3_Witness ==
    /\ pc = "ccq_count"
    /\ ~HasClientIdKey(args.query_filters)
    /\ Len(SkillTable[args.client_id]) > 1
    /\ Len(args.query_filters.v) > 0

---------------------------------------------------------------------------
(* create_campaign_from_query: the number of rows inserted *)

\* a successful call without a skill filter for a client with one skill
OneSkillSuccess ==
    /\ ReturnedSuccess
    /\ ~HasClientIdKey(args.query_filters)
    /\ Len(SkillTable[args.client_id]) = 1

\* the filter the call used has client_id = the client's one skill
EqualityOnTheSkill ==
    Get(result.value.query_filters, "client_id") = SkillIds(args.client_id).v[1]

---------------------------------------------------------------------------
(* create_campaign_from_query: the campaign and its derived rows *)

\* the call ended in an exception after it had committed a campaign
FailedAfterCampaign ==
    pc = "done" /\ result.k = "raise" /\ CommittedCampaignIds # {}

\* C5: the campaign INSERT is committed on its own before the derived INSERT
\* is built or executed, so when anything fails after that commit the new
\* campaign stays in the database with zero derived rows: no rollback and no
\* compensating delete is performed.
C5_OrphanedCampaignStays ==
    /\ \A j \in 1..Len(log) :
          log[j].kind = "tx_insert" =>
              \E i \in 1..(j - 1) :
                  log[i].kind = "campaign_insert" /\ log[i].outcome = "ok"
    /\ \A id \in CommittedCampaignIds :
          \E c \in 1..Len(campaigns) : campaigns[c].campaign_id = id
    /\ FailedAfterCampaign =>
          /\ \A id \in CommittedCampaignIds : DerivedRowsOf(id) = {}
          /\ \A i \in 1..Len(log) :
                log[i].kind \in {"links", "skills", "count",
                                 "campaign_insert", "tx_insert"}

\* a call whose derived INSERT failed after the campaign was committed
C5_Witness ==
    FailedAfterCampaign /\ Executed("tx_insert") /\ Len(campaigns) = 1

\* C6: when the call has created a campaign and the derived-row insertion
\* then fails, the outcome reported to the caller exposes the id of the
\* orphaned campaign.
C6_OrphanIdExposed ==
    FailedAfterCampaign =>
        \E id \in CommittedCampaignIds :
            "campaign_id" \in DOMAIN result /\ result.campaign_id = id

---------------------------------------------------------------------------
(* select_records, count_records: the column allowlists *)

SelectTools == {"select_records", "count_records"}

\* a call of select_records or count_records on a table of TABLES is over
SelectCallOver ==
    pc = "done" /\ args.tool \in SelectTools /\ InTables(args.table)

\* the call raised ValueError and executed no statement
RejectedWhileBuilding == result = Raised("ValueError") /\ log = <<>>

\* the call projects a name that is not, as given, an allowed column
ProjectsOutside ==
    /\ args.tool = "select_records"
    /\ Truthy(args.columns)
    /\ \E i \in 1..Len(args.columns.v) :
          args.columns.v[i].v \notin TABLES[args.table.v].allowed

\* the call projects a name that is not an allowed column once the white
\* space around it is stripped
ProjectsOutsideStripped ==
    /\ args.tool = "select_records"
    /\ Truthy(args.columns)
    /\ \E i \in 1..Len(args.columns.v) :
          strip(args.columns.v[i].v) \notin TABLES[args.table.v].allowed

\* the call filters on a column that is not allowed
FiltersOutside ==
    /\ Truthy(args.filters)
    /\ \E i \in 1..Len(args.filters.v) :
          args.filters.v[i][1] \notin TABLES[args.table.v].allowed

\* the call orders by a column that is not allowed
OrdersOutside ==
    /\ args.tool = "select_records"
    /\ Truthy(args.order_by)
    /\ Len(split(args.order_by.v)) > 0
    /\ split(args.order_by.v)[1] \notin TABLES[args.table.v].allowed

\* C7 as stated: for every table and every column name that is not in the
\* table's allowed set, a select that projects it, a select or count that
\* filters on it and a select that orders by it fail with a validation error
\* while the statement is built, and no statement is executed in that call.
C7_InvalidColumnRejected ==
    (SelectCallOver /\ (ProjectsOutside \/ FiltersOutside \/ OrdersOutside))
        => RejectedWhileBuilding

\* C7 amended: a projected name is compared with the allowed set after the
\* white space around it is stripped; filter and order-by columns are
\* compared as given.
C7_InvalidColumnRejectedAfterStrip ==
    (SelectCallOver
        /\ (ProjectsOutsideStripped \/ FiltersOutside \/ OrdersOutside))
        => RejectedWhileBuilding

\* a select whose only fault is a projected column outside the allowed set
C7_Witness ==
    /\ SelectCallOver
    /\ ProjectsOutsideStripped
    /\ ~FiltersOutside
    /\ ~OrdersOutside
    /\ RejectedWhileBuilding

---------------------------------------------------------------------------
(* select_records, count_records: the table allowlist *)

\* where the FROM clause of a statement starts
FromAt(sql) ==
    CHOOSE i \in 1..Len(sql) :
        /\ SubSeq(sql, i, i + 5) = " FROM "
        /\ \A j \in 1..(i - 1) : SubSeq(sql, j, j + 5) # " FROM "

\* where the word that starts at position `from` ends
WordEnd(sql, from) ==
    CHOOSE j \in from..Len(sql) :
        /\ j = Len(sql) \/ SubSeq(sql, j + 1, j + 1) = " "
        /\ \A k \in from..j : SubSeq(sql, k, k) # " "

\* the table after FROM in a statement
FromTable(sql) == SubSeq(sql, FromAt(sql) + 6, WordEnd(sql, FromAt(sql) + 6))

\* the qualified names of the tables the SELECT allowlist holds
AllowlistedNames == {"lvousr." \o t : t \in ALLOWED_SELECT_TABLES}

\* the table argument is outside the allowlists of the guardrail and of the
\* query builder
NotAllowlisted(table) == ~validate_table(table).ok \/ ~InTables(table)

\* C8: a select or count on a table name that is not in the table allowlist
\* fails with an error before any SQL text is produced, whatever the other
\* arguments; only allowlisted tables appear in the FROM clause of a
\* statement built by build_select or build_count.
C8_OnlyAllowlistedTables ==
    /\ (pc = "done" /\ args.tool \in SelectTools /\ NotAllowlisted(args.table))
          => RejectedWhileBuilding
    /\ \A i \in 1..Len(log) :
          log[i].kind \in {"select", "count"}
              => FromTable(log[i].sql) \in AllowlistedNames

\* a select on a table outside the allowlist, with columns and filters that
\* are columns of that table
C8_Witness ==
    /\ pc = "done"
    /\ args.tool = "select_records"
    /\ args.table = S("transaction")
    /\ Truthy(args.filters)
    /\ RejectedWhileBuilding

---------------------------------------------------------------------------
(* select_transactions, select_contact: dispatch on the dialing_db *)

RoutedTools == {"select_transactions", "select_contact"}

\* the positions of the data queries in the log of the call
DataEntries == {i \in 1..Len(log) : log[i].kind = "data"}

\* a routed call projects a column that is not an allowed column of the
\* table it reads, whatever the letter case
RoutedProjectsOutside ==
    /\ Truthy(args.columns)
    /\ \E i \in 1..Len(args.columns.v) :
          lower(strip(args.columns.v[i].v)) \notin AllowedLower(RoutedTable)

\* C9: in the routed select for a Postgres-classified client, a projection
\* column outside the allowed set of the queried table produces a local
\* validation error and no data query is executed on the Postgres backend.
C9_PostgresProjectionChecked ==
    (pc = "done" /\ args.tool \in RoutedTools /\ RoutedToPostgres
        /\ RoutedProjectsOutside)
        => (result = Raised("ValueError") /\ DataEntries = {})

\* the dialing_db and reporting_db of the client of the call
RoutedRow == LinksRow(args.client_id).v

\* the backend the client's dialing_db classifies to
Classified == get_db_type(RoutedRow[1])

\* the table lists resolve_transaction_tables can give for the client
ResolvedTables ==
    {resolve_transaction_tables(RoutedRow[1], RoutedRow[2], n, today) :
        n \in ArchiveCounts, today \in Todays}

\* what the builder of the classified backend gives for the arguments
BuiltByClassified ==
    IF args.tool = "select_contact"
    THEN {IF Classified = "postgres"
          THEN build_postgres_contact_select(args.filters, args.columns,
                                             args.limit, args.order_by)
          ELSE build_oracle_contact_select(RoutedRow[1], args.filters,
                                           args.columns, args.limit,
                                           args.order_by)}
    ELSE {IF Classified = "postgres"
          THEN build_postgres_transaction_union(t.value, args.filters,
                                                args.columns, args.limit,
                                                args.order_by)
          ELSE build_transaction_union(t.value, args.filters, args.columns,
                                       args.limit, args.order_by) :
          t \in {r \in ResolvedTables : r.ok}}

\* the statement is one the builder of the classified backend built
FromClassifiedBuilder(sql, params) ==
    \E q \in BuiltByClassified :
        q.ok /\ q.value.sql = sql /\ q.value.params = params

\* C10: in select_transactions and select_contact the data query is built by
\* the Postgres builder and executed on the Postgres connection exactly when
\* the client's dialing_db classifies as postgres, and otherwise built by the
\* Oracle builder and executed on the Oracle connection, always after the
\* routing lookup; when no client row exists the call fails and no data
\* query is executed on either backend.
C10_RoutedDispatch ==
    (pc \in {"routed_data", "done"} /\ args.tool \in RoutedTools) =>
        /\ pc = "routed_data" =>
              /\ Answered("links", LinksRow(args.client_id))
              /\ loc.backend = Classified
              /\ FromClassifiedBuilder(loc.query.sql, loc.query.params)
        /\ \A i \in DataEntries :
              /\ i > 1
              /\ log[1].kind = "links" /\ log[1].outcome = "ok"
              /\ log[i].backend = Classified
              /\ FromClassifiedBuilder(log[i].sql, log[i].params)
        /\ (pc = "done" /\ ~Truthy(LinksRow(args.client_id))) =>
              (result.k = "raise" /\ DataEntries = {})
        /\ NoClientRow => (result = Raised("ValueError") /\ DataEntries = {})

\* a data query that ran on Postgres for a Postgres-classified client
C10_Witness ==
    /\ pc = "done"
    /\ args.tool = "select_transactions"
    /\ RoutedToPostgres
    /\ \E i \in DataEntries :
          log[i].backend = "postgres" /\ log[i].outcome = "ok"

---------------------------------------------------------------------------
(* guardrails.py: validate_campaign_insert *)

\* the function has been applied to args.input and result is what it gave
AppliedTo(function) == pc = "done" /\ args.tool = function

\* the parts of a well-formed campaign record that do not depend on how the
\* column names are compared
WellFormedValues(data) ==
    /\ IsMapping(data)
    /\ Len(data.v) > 0
    /\ HasKey(data, "client_id")
    /\ IsInt(Get(data, "client_id"))
    /\ Get(data, "client_id").v >= 1
    /\ IsNone(Get(data, "am_option"))
          \/ Get(data, "am_option") \in
                {S("DONT_LEAVE_MESSAGES"), S("LEAVE_MESSAGES"), S("NO_AM")}
    /\ IsNone(Get(data, "contact_source"))
          \/ Get(data, "contact_source") \in {S("CAMPAIGN"), S("CONTACT")}

\* every provided column name is, as given, an allowed insert column
ColumnsAllowedAsGiven(data) ==
    \A i \in 1..Len(data.v) : data.v[i][1] \in CAMPAIGN_INSERT_COLUMNS

\* every provided column name is an allowed insert column in lower case
ColumnsAllowedLowered(data) ==
    \A i \in 1..Len(data.v) : lower(data.v[i][1]) \in CAMPAIGN_INSERT_COLUMNS

---------------------------------------------------------------------------
(* guardrails.py: validate_limit, validate_offset *)

\* C13: validate_limit(n) returns DEFAULT_LIMIT (100) when n is absent, fails
\* with GuardrailError when n is not an integer or n < 1, and otherwise
\* returns min(n, MAX_ROWS); its result is always within [1, MAX_ROWS].
C13_ValidateLimit ==
    AppliedTo("validate_limit") =>
        /\ DEFAULT_LIMIT = 100
        /\ IsNone(args.input) => result = Returned(I(DEFAULT_LIMIT))
        /\ (~IsNone(args.input) /\ ~IsInt(args.input))
              => result = Raised("GuardrailError")
        /\ (IsInt(args.input) /\ args.input.v < 1)
              => result = Raised("GuardrailError")
        /\ (IsInt(args.input) /\ args.input.v >= 1) =>
              result = Returned(I(IF args.input.v <= MAX_ROWS
                                  THEN args.input.v ELSE MAX_ROWS))
        /\ result.k = "return" =>
              (result.value.v >= 1 /\ result.value.v <= MAX_ROWS)

\* a limit above MAX_ROWS comes back as MAX_ROWS
C13_Witness ==
    /\ AppliedTo("validate_limit")
    /\ IsInt(args.input)
    /\ args.input.v > MAX_ROWS
    /\ result = Returned(I(MAX_ROWS))

\* C14: validate_offset(n) returns n when it is within [0, MAX_OFFSET] and 0
\* when n is absent, fails with GuardrailError on negative values and on
\* values above MAX_OFFSET, and never returns a value outside
\* [0, MAX_OFFSET].
C14_ValidateOffset ==
    AppliedTo("validate_offset") =>
        /\ IsNone(args.input) => result = Returned(I(0))
        /\ (IsInt(args.input) /\ args.input.v < 0)
              => result = Raised("GuardrailError")
        /\ (IsInt(args.input) /\ args.input.v > MAX_OFFSET)
              => result = Raised("GuardrailError")
        /\ (IsInt(args.input) /\ args.input.v >= 0
                /\ args.input.v <= MAX_OFFSET)
              => result = Returned(args.input)
        /\ result.k = "return" =>
              (result.value.v >= 0 /\ result.value.v <= MAX_OFFSET)

\* an offset above MAX_OFFSET is refused
C14_Witness ==
    /\ AppliedTo("validate_offset")
    /\ IsInt(args.input)
    /\ args.input.v > MAX_OFFSET
    /\ result = Raised("GuardrailError")

---------------------------------------------------------------------------
(* guardrails.py: redact_row *)

SensitiveColumns ==
    {"ssn", "dob", "password", "password_hash", "api_key", "secret", "token"}

\* C15: redact_row(row) returns a row with the same keys as the input, in
\* which every value whose column name is, in any letter case, in the
\* sensitive-column set is replaced by the redaction sentinel and every other
\* value is unchanged; applying it twice gives what applying it once gives.
C15_RedactRow ==
    AppliedTo("redact_row") =>
        /\ result.k = "return"
        /\ Keys(result.value) = Keys(args.input)
        /\ \A i \in 1..Len(args.input.v) :
              result.value.v[i][2] =
                  IF lower(args.input.v[i][1]) \in SensitiveColumns
                  THEN S("***REDACTED***") ELSE args.input.v[i][2]
        /\ redact_row(result.value) = result.value

\* a row with an upper-case sensitive column and a column that is kept
C15_Witness ==
    /\ AppliedTo("redact_row")
    /\ Get(args.input, "SSN") = S("123-45-6789")
    /\ Get(args.input, "account") = I(7)
    /\ Get(result.value, "SSN") = S("***REDACTED***")

---------------------------------------------------------------------------
(* select_records: the row limit and the rows handed to the caller *)

\* C12: the row limit bound into the generated statement is the requested
\* limit capped at the per-call maximum of 1000, and a request with limit 0
\* or below fails instead of producing a statement.
C12_LimitCappedOrRefused ==
    (pc = "done" /\ args.tool = "select_records") =>
        /\ args.limit < 1 => (result.k = "raise" /\ log = <<>>)
        /\ \A i \in 1..Len(log) :
              log[i].kind = "select" =>
                  log[i].params[Len(log[i].params) - 1]
                      = I(IF args.limit < 1000 THEN args.limit ELSE 1000)

\* C16: in every row select_records returns to the caller, the value of a
\* column whose name is in the sensitive-column set is the redaction
\* sentinel, never the stored value.
C16_OutboundRowsRedacted ==
    (pc = "done" /\ args.tool = "select_records" /\ result.k = "return") =>
        \A i \in 1..Len(result.value.v) :
            \A j \in 1..Len(result.value.v[i].v) :
                lower(result.value.v[i].v[j][1]) \in SensitiveColumns
                    => result.value.v[i].v[j][2] = S("***REDACTED***")

---------------------------------------------------------------------------
(* The filter translators: malformed entries *)

\* a translator has been applied to a filter that is not empty
TranslatedFilter ==
    pc = "done" /\ args.tool \in Translators /\ Truthy(args.filters)

\* the column a translator compares with the allowed set, and writes
ColumnAsRead(translator, key) ==
    CASE translator = "query_validate_filters" -> key
      [] translator = "tx_validate_filters" -> upper(strip(key))
      [] OTHER -> lower(strip(key))

\* the column is outside the allowed set of the contact table
OutsideAllowed(translator, key) ==
    IF translator = "query_validate_filters"
    THEN key \notin CONTACT_COLUMNS
    ELSE lower(strip(key)) \notin CONTACT_COLUMNS

\* the operator and operand a filter value gives: a descriptor {op, value},
\* a two-element sequence [op, value], or a bare value, which implies eq
GivenAs(value) ==
    IF IsMapping(value) /\ HasKey(value, "op")
    THEN [op |-> lower(Str(Get(value, "op"))), operand |-> Get(value, "value")]
    ELSE IF IsListOrTuple(value) /\ Len(value.v) = 2 /\ IsStr(value.v[1])
    THEN [op |-> lower(value.v[1].v), operand |-> value.v[2]]
    ELSE [op |-> "eq", operand |-> value]

\* the operator names and the symbols that stand for some of them
KnownOperatorTexts == Operators \cup {"=", "!=", "<>", ">", ">=", "<", "<="}

\* the operand does not have the shape the operator needs
WrongShape(op, operand) ==
    \/ op \in {"in", "not_in"}
          /\ (~IsListOrTuple(operand) \/ Len(operand.v) = 0)
    \/ op = "between" /\ (~IsListOrTuple(operand) \/ Len(operand.v) # 2)

Malformed(translator, entry) ==
    \/ OutsideAllowed(translator, entry[1])
    \/ GivenAs(entry[2]).op \notin KnownOperatorTexts
    \/ WrongShape(GivenAs(entry[2]).op, GivenAs(entry[2]).operand)

\* the filter is one `in` entry on an allowed column with one element
OneElementIn ==
    /\ Len(args.filters.v) = 1
    /\ ~OutsideAllowed(args.tool, args.filters.v[1][1])
    /\ GivenAs(args.filters.v[1][2]).op = "in"
    /\ IsListOrTuple(GivenAs(args.filters.v[1][2]).operand)
    /\ Len(GivenAs(args.filters.v[1][2]).operand.v) = 1

\* the predicate of a one-element `in` on the column: one placeholder
OnePlaceholder(translator, column, element) ==
    IF translator = "tx_validate_filters"
    THEN [sql |-> " WHERE " \o column \o " IN (:p1)",
          params |-> D(<<<<"p1", element>>>>)]
    ELSE [sql |-> " WHERE " \o column \o " IN (%s)", params |-> <<element>>]

\* the rejections and the single placeholder, for the filter of this call
MalformedRejected ==
    /\ (\E i \in 1..Len(args.filters.v) :
            Malformed(args.tool, args.filters.v[i]))
          => result = Raised("ValueError")
    /\ OneElementIn =>
          result = Returned(OnePlaceholder(
                       args.tool,
                       ColumnAsRead(args.tool, args.filters.v[1][1]),
                       GivenAs(args.filters.v[1][2]).operand.v[1]))

\* C17: in every filter translator, translation fails with a validation
\* error and yields no predicate when an entry names a column outside the
\* allowed set, names an unknown operator, gives in / not_in an empty or
\* non-collection operand, or gives between an operand that is not a sequence
\* of length two; an `in` filter with one element produces one placeholder.
C17_MalformedFilterRejected ==
    TranslatedFilter => MalformedRejected

---------------------------------------------------------------------------
(* The filter translators: the forms of a filter value *)

\* a translator has been applied to a filter of one entry
TranslatedOne == TranslatedFilter /\ Len(args.filters.v) = 1

\* what the translator gives for the entry's column with another value
WithValue(value) ==
    Outcome(Translate(args.tool, args.table,
                      D(<<<<args.filters.v[1][1], value>>>>)))

\* C18: in every filter translator a bare value is translated as an equality
\* on that value, and the sequence form [op, value] gives the same clause and
\* parameters as the descriptor form {op, value}.
C18_FormsAgree ==
    TranslatedOne =>
        /\ (IsInt(args.filters.v[1][2]) \/ IsStr(args.filters.v[1][2]))
              => result = WithValue(DescriptorForm("eq", args.filters.v[1][2]))
        /\ (IsListOrTuple(args.filters.v[1][2])
                /\ Len(args.filters.v[1][2].v) = 2
                /\ IsStr(args.filters.v[1][2].v[1]))
              => result = WithValue(DescriptorForm(args.filters.v[1][2].v[1].v,
                                                   args.filters.v[1][2].v[2]))

\* the operand has the shape the operator needs
WellShaped(op, operand) ==
    CASE op \in {"in", "not_in"} -> IsListOrTuple(operand) /\ Len(operand.v) > 0
      [] op = "between" -> IsListOrTuple(operand) /\ Len(operand.v) = 2
      [] op \in {"is_null", "is_not_null"} -> TRUE
      [] OTHER -> IsInt(operand) \/ IsStr(operand)

\* C19: each of the fifteen operators, given a well-shaped operand on an
\* allowed column, is accepted and translated to a clause by every
\* translator; none is rejected as an unsupported operator.
C19_AllOperatorsAccepted ==
    (TranslatedOne
        /\ args.filters.v[1][1] = "account"
        /\ \E op \in Operators, operand \in Operands :
              /\ WellShaped(op, operand)
              /\ args.filters.v[1][2] = DescriptorForm(op, operand))
        => result.k = "return"

---------------------------------------------------------------------------
(* The filter translators: one clause per entry, in the order of the input *)

RECURSIVE Flatten(_)
Flatten(seqs) ==
    IF Len(seqs) = 0 THEN <<>> ELSE Head(seqs) \o Flatten(Tail(seqs))

\* what a translator gives for entry i alone (the filter is valid, so is
\* each of its entries)
Alone(translator, i) ==
    Translate(translator, args.table, D(<<args.filters.v[i]>>)).value

\* a predicate without its leading " WHERE "
AfterWhere(sql) == SubSeq(sql, 8, Len(sql))

\* the predicate a placeholder translator must give for the entries: the
\* clauses of the entries in their order, joined by AND, and their parameters
InEntryOrder(translator) ==
    [sql |-> " WHERE " \o join(" AND ",
                [i \in 1..Len(args.filters.v) |->
                    AfterWhere(Alone(translator, i).sql)]),
     params |-> Flatten([i \in 1..Len(args.filters.v) |->
                            Alone(translator, i).params])]

\* the binds the Oracle translator has numbered before entry i
RECURSIVE BindsBefore(_)
BindsBefore(i) ==
    IF i = 1 THEN 0
    ELSE BindsBefore(i - 1)
            + Len(Alone("tx_validate_filters", i - 1).params.v)

\* the Oracle clause of entry i, its binds numbered on from the entries
\* before it
OracleEntryAt(i) ==
    OracleClause(normalize_identifier(args.filters.v[i][1]),
                 TxFilterOp(args.filters.v[i][2]).op,
                 TxFilterOp(args.filters.v[i][2]).operand,
                 1 + BindsBefore(i)).value

OracleInEntryOrder ==
    [sql |-> " WHERE " \o join(" AND ",
                [i \in 1..Len(args.filters.v) |-> OracleEntryAt(i).sql]),
     params |-> D(Flatten([i \in 1..Len(args.filters.v) |->
                              OracleEntryAt(i).params]))]

\* C20: for every valid filter mapping the predicate holds one clause per
\* entry, in the iteration order of the mapping, joined only by AND, and the
\* parameters come in the same order; build_select puts limit and then offset
\* after them, 100 and 0 by default.
C20_ClausesInEntryOrder ==
    (pc = "done" /\ args.tool \in Translators \cup {"build_select"}
        /\ Truthy(args.filters) /\ result.k = "return") =>
        CASE args.tool = "tx_validate_filters" ->
                result.value = OracleInEntryOrder
          [] args.tool = "build_select" ->
                /\ result.value.sql =
                      "SELECT * FROM lvousr.contact"
                          \o InEntryOrder("query_validate_filters").sql
                          \o " LIMIT %s OFFSET %s"
                /\ result.value.params =
                      InEntryOrder("query_validate_filters").params
                          \o <<I(100), I(0)>>
          [] OTHER -> result.value = InEntryOrder(args.tool)

\* a select built from three entries, the default window after their
\* parameters
C20_Witness ==
    /\ pc = "done"
    /\ args.tool = "build_select"
    /\ Truthy(args.filters)
    /\ Len(args.filters.v) = 3
    /\ result.k = "return"
    /\ Len(result.value.params) > 3
    /\ result.value.params[Len(result.value.params)] = I(0)

---------------------------------------------------------------------------
(* The union builders *)

\* the places where `sub` occurs in `s`
Count(s, sub) ==
    Cardinality({i \in 1..(Len(s) - Len(sub) + 1) :
                    SubSeq(s, i, i + Len(sub) - 1) = sub})

EndsWith(s, sub) ==
    Len(s) >= Len(sub) /\ SubSeq(s, Len(s) - Len(sub) + 1, Len(s)) = sub

UnionTools == {"build_transaction_union", "build_postgres_transaction_union"}

UnionCall == pc = "done" /\ args.tool \in UnionTools

UnionBuilt == UnionCall /\ result.k = "return"

\* the predicate and the parameters P the filter of the call yields
UnionWhere ==
    IF args.tool = "build_transaction_union"
    THEN tx_validate_filters(args.input.filters, "transaction").value
    ELSE validate_filters_postgres(args.input.filters, "transaction").value

\* a table name up to its database link
BeforeLink(name) ==
    IF Count(name, "@") = 0 THEN name
    ELSE SubSeq(name, 1,
                (CHOOSE i \in 1..Len(name) : SubSeq(name, i, i) = "@") - 1)

\* the table of branch i as the statement names it
BranchTable(i) ==
    IF args.tool = "build_transaction_union"
    THEN args.input.table_names[i]
    ELSE lower(BeforeLink(args.input.table_names[i]))

\* the row limit of the dialect
RowLimit ==
    IF args.tool = "build_transaction_union"
    THEN " FETCH FIRST :limit ROWS ONLY"
    ELSE " LIMIT %s"

\* the limit the statement binds
BoundLimit ==
    IF args.input.limit < 1 THEN I(1)
    ELSE IF args.input.limit > 1000 THEN I(1000)
    ELSE I(args.input.limit)

\* N branches, each the select of one table with the predicate of the
\* filter, in one outer select with one ORDER BY and one row limit
UnionStatement(sql, N) ==
    /\ SubSeq(sql, 1, 15) = "SELECT * FROM ("
    /\ Count(sql, "SELECT ") = N + 1
    /\ Count(sql, " UNION ALL ") = N - 1
    /\ \A i \in 1..N :
          Count(sql, "SELECT * FROM " \o BranchTable(i) \o UnionWhere.sql
                     \o (IF i < N THEN " UNION ALL " ELSE ")")) = 1
    /\ Count(sql, " WHERE ") = (IF UnionWhere.sql = "" THEN 0 ELSE N)
    /\ Count(sql, " ORDER BY ")
          = (IF Truthy(args.input.order_by) THEN 1 ELSE 0)
    /\ Count(sql, RowLimit) = 1
    /\ EndsWith(sql, RowLimit)

\* P once per branch, then the limit
PositionalParams(params, P, N) ==
    /\ Len(params) = N * Len(P) + 1
    /\ \A j \in 1..N : \A i \in 1..Len(P) : params[(j - 1) * Len(P) + i] = P[i]
    /\ params[Len(params)] = BoundLimit

\* each named bind of P once, and limit
NamedParams(params, P) ==
    /\ Len(params.v) = Len(P.v) + 1
    /\ \A i \in 1..Len(P.v) : params.v[i] = P.v[i]
    /\ params.v[Len(params.v)] = <<"limit", BoundLimit>>
    /\ \A i, j \in 1..Len(params.v) :
          params.v[i][1] = params.v[j][1] => i = j

\* C21: a union over N >= 1 tables has N SELECT branches joined by UNION
\* ALL, each with the predicate of the filter, in one outer SELECT with one
\* ORDER BY and one row limit; the Postgres parameters are P repeated N times
\* and then the limit, the Oracle parameters hold each named bind of P once
\* and limit, whatever N is; an empty table list fails.
C21_UnionShape ==
    /\ (UnionCall /\ Len(args.input.table_names) = 0)
          => result = Raised("ValueError")
    /\ UnionBuilt =>
          /\ Len(args.input.table_names) >= 1
          /\ UnionStatement(result.value.sql, Len(args.input.table_names))
          /\ IF args.tool = "build_transaction_union"
             THEN NamedParams(result.value.params, UnionWhere.params)
             ELSE /\ PositionalParams(result.value.params, UnionWhere.params,
                                      Len(args.input.table_names))
                  /\ Count(result.value.sql, "%s") = Len(result.value.params)

\* a Postgres union of three tables whose filter yields three parameters
C21_Witness ==
    /\ UnionBuilt
    /\ args.tool = "build_postgres_transaction_union"
    /\ Len(args.input.table_names) = 3
    /\ Len(UnionWhere.params) = 3
    /\ Len(result.value.params) = 10

---------------------------------------------------------------------------
(* The table resolver *)

ResolverCall == pc = "done" /\ args.tool = "resolve_transaction_tables"

\* n in 0..99 as two digits
TwoDigits(n) == ToString(n \div 10) \o ToString(n % 10)

\* the calendar month i months before the month of the reference date,
\* counted in months since year 0
MonthBefore(today, i) == today[1] * 12 + (today[2] - 1) - i

\* the archive table of that month on the reporting link
ArchiveTable(today, i, reporting_db) ==
    S("LVOUSR.TRANSACTION_"
        \o TwoDigits((MonthBefore(today, i) % 12) + 1)
        \o TwoDigits((MonthBefore(today, i) \div 12) % 100)
        \o "@" \o reporting_db.v)

\* the archive tables the call has to list
ArchivesDue ==
    IF Truthy(args.input.reporting_db) /\ args.input.archive_count > 0
    THEN args.input.archive_count
    ELSE 0

\* C22: resolve_transaction_tables gives the live table LVOUSR.TRANSACTION
\* on dialing_db first; with a reporting_db and an archive count k > 0 it is
\* followed by the k tables LVOUSR.TRANSACTION_MMYY on reporting_db of the k
\* calendar months before the reference date's month, most recent first,
\* December of the previous year coming before January; without a
\* reporting_db or with k = 0 the list is the live table alone; an empty
\* dialing_db fails.
C22_ResolvedTables ==
    ResolverCall =>
        IF ~Truthy(args.input.dialing_db)
        THEN result = Raised("ValueError")
        ELSE /\ result.k = "return"
             /\ Len(result.value.v) = 1 + ArchivesDue
             /\ result.value.v[1]
                   = S("LVOUSR.TRANSACTION@" \o args.input.dialing_db.v)
             /\ \A i \in 1..ArchivesDue :
                   result.value.v[i + 1]
                      = ArchiveTable(args.input.today, i,
                                     args.input.reporting_db)

\* reference 2026-02-18 with two archive months: 0126, then 1225
C22_Witness ==
    /\ ResolverCall
    /\ args.input.today = <<2026, 2, 18>>
    /\ args.input.archive_count = 2
    /\ result = Returned(L(<<S("LVOUSR.TRANSACTION@lvstg4a"),
                             S("LVOUSR.TRANSACTION_0126@lvrpt"),
                             S("LVOUSR.TRANSACTION_1225@lvrpt")>>))

---------------------------------------------------------------------------
(* The classifier *)

ClassifierCall == pc = "done" /\ args.tool = "get_db_type"

\* the link holds the marker, in whatever case
HoldsMarker(db_link) ==
    IsStr(db_link) /\ Count(lower(db_link.v), "stg4b") > 0

\* C23: get_db_type(db_link) never fails; it returns postgres exactly when
\* db_link holds the marker stg4b, compared without regard to case, and
\* oracle for every other input, an empty or absent link included.
C23_Classifier ==
    ClassifierCall =>
        IF HoldsMarker(args.input)
        THEN result = Returned(S("postgres"))
        ELSE result = Returned(S("oracle"))

\* a link with the marker in upper case
C23_Witness ==
    /\ ClassifierCall
    /\ args.input = S("LVSTG4B")
    /\ result = Returned(S("postgres"))

---------------------------------------------------------------------------
(* ORDER BY in the select builders *)

OracleBuilders == {"build_transaction_union", "build_oracle_contact_select"}

TransactionBuilders ==
    {"build_transaction_union", "build_postgres_transaction_union"}

OrderTools ==
    {"build_select", "build_contact_with_details_select",
     "build_postgres_contact_select"}
        \cup OracleBuilders \cup TransactionBuilders

\* a select builder has been applied with an order_by
OrderedCall ==
    pc = "done" /\ args.tool \in OrderTools /\ Truthy(args.input.order_by)

\* the words of the order_by
OrderWords == split(args.input.order_by.v)

\* the allowed columns of the table the statement queries, in lower case
QueriedColumns ==
    IF args.tool \in TransactionBuilders THEN TRANSACTION_COLUMNS_LOWER
    ELSE IF args.tool = "build_select" /\ args.input.table = "contact_details"
    THEN CONTACT_DETAILS_COLUMNS
    ELSE CONTACT_COLUMNS

\* the order_by names an allowed column of that table, whatever the case of
\* the name, and no direction or ASC or DESC
OrderValid ==
    /\ Len(OrderWords) >= 1
    /\ lower(OrderWords[1]) \in QueriedColumns
    /\ Len(OrderWords) = 1 \/ upper(OrderWords[2]) \in {"ASC", "DESC"}

OrderDirection == IF Len(OrderWords) > 1 THEN upper(OrderWords[2]) ELSE "ASC"

\* what follows the ORDER BY in the statement of the builder
AfterOrderBy ==
    IF args.tool \in OracleBuilders THEN " FETCH FIRST :limit ROWS ONLY"
    ELSE " LIMIT %s"

\* the statement has one ORDER BY, of the column and the direction alone
EmittedOrderBy(sql) ==
    /\ Count(sql, " ORDER BY ") = 1
    /\ \E column \in {OrderWords[1], lower(OrderWords[1]), upper(OrderWords[1])} :
          Count(sql, " ORDER BY "
                     \o (IF args.tool = "build_contact_with_details_select"
                         THEN "c." ELSE "")
                     \o column \o " " \o OrderDirection \o AfterOrderBy) = 1

\* C24: in every select builder an order_by is accepted only if its column
\* is in the allowed column set of the table being queried and its direction
\* is ASC or DESC in any case (ASC when omitted); the emitted ORDER BY holds
\* only that column and the upper-case direction; any other order_by is
\* rejected with a validation error. The order column of the Oracle routed
\* contact select must be a contact column.
C24_OrderByValidated ==
    OrderedCall =>
        /\ result.k = "return"
              => OrderValid /\ EmittedOrderBy(result.value.sql)
        /\ ~OrderValid => result = Raised("ValueError")

---------------------------------------------------------------------------
(* The projection of the joined contact/details select *)

JoinedBuilt ==
    /\ pc = "done"
    /\ args.tool = "build_contact_with_details_select"
    /\ result.k = "return"

\* the select list of the statement, each of its items closed by ", "
Projection(sql) ==
    SubSeq(sql, 8,
           (CHOOSE i \in 1..(Len(sql) - 21) :
               SubSeq(sql, i, i + 21) = " FROM lvousr.contact c") - 1) \o ", "

\* where the items of the select list start
ItemStarts(p) ==
    {1} \cup {i + 2 : i \in {j \in 1..(Len(p) - 2) : SubSeq(p, j, j + 1) = ", "}}

\* the items of the select list that are `alias.col AS prefix_col`
ItemsOf(p, starts, alias, prefix, col) ==
    {a \in starts :
        /\ a + 2 * Len(col) + Len(alias) + Len(prefix) + 7 <= Len(p)
        /\ SubSeq(p, a, a + 2 * Len(col) + Len(alias) + Len(prefix) + 7)
            = alias \o "." \o col \o " AS " \o prefix \o "_" \o col \o ", "}

\* how often the caller asks for the column: once when it names no columns
Asked(columns, col) ==
    IF ~Truthy(columns) THEN 1
    ELSE Cardinality({i \in 1..Len(columns.v) : strip(columns.v[i].v) = col})

\* the columns the side has to project
SideSize(columns, all) ==
    IF ~Truthy(columns) THEN Cardinality(all) ELSE Len(columns.v)

\* no wildcard; each side is its requested columns, or its whole allowlisted
\* set when none is requested; every item is c.<col> AS contact_<col> or
\* d.<col> AS details_<col>
ExpandedAndAliased(sql, p, starts) ==
    /\ Count(sql, "*") = 0
    /\ Cardinality(starts)
          = SideSize(args.input.contact_columns, CONTACT_COLUMNS)
            + SideSize(args.input.details_columns, CONTACT_DETAILS_COLUMNS)
    /\ \A col \in CONTACT_COLUMNS :
          Cardinality(ItemsOf(p, starts, "c", "contact", col))
             = Asked(args.input.contact_columns, col)
    /\ \A col \in CONTACT_DETAILS_COLUMNS :
          Cardinality(ItemsOf(p, starts, "d", "details", col))
             = Asked(args.input.details_columns, col)

\* no output name is given to two items
DistinctNames(p, starts) ==
    /\ \A col \in CONTACT_COLUMNS :
          Cardinality(ItemsOf(p, starts, "c", "contact", col)) <= 1
    /\ \A col \in CONTACT_DETAILS_COLUMNS :
          Cardinality(ItemsOf(p, starts, "d", "details", col)) <= 1

\* C25: in the joined contact/details select the projection holds no
\* wildcard: a side with no requested columns is expanded to its full
\* allowlisted set, every projected column is emitted as c.<col> AS
\* contact_<col> or d.<col> AS details_<col>, and no two output columns
\* share a name.
C25_JoinedProjection ==
    JoinedBuilt =>
        LET p == Projection(result.value.sql)
            starts == ItemStarts(p)
        IN  /\ ExpandedAndAliased(result.value.sql, p, starts)
            /\ DistinctNames(p, starts)

\* C25, amended: in the joined contact/details select the projection holds
\* no wildcard: a side with no requested columns is expanded to its full
\* allowlisted set, and every projected column is emitted as c.<col> AS
\* contact_<col> or d.<col> AS details_<col>, once for each time it is
\* requested; a contact output never shares its name with a details output,
\* and two outputs of one side share a name only when the caller names the
\* column twice.
C25_JoinedProjectionPerRequest ==
    JoinedBuilt =>
        LET p == Projection(result.value.sql)
            starts == ItemStarts(p)
        IN  ExpandedAndAliased(result.value.sql, p, starts)

\* both sides expanded to their full sets
C25_Witness ==
    /\ JoinedBuilt
    /\ args.input.contact_columns = None
    /\ args.input.details_columns = None
    /\ Count(result.value.sql, " AS contact_ssn, ") = 1
    /\ Count(result.value.sql, " AS details_col100, ") = 1

---------------------------------------------------------------------------
(* The statement timeout *)

\* the statements built from the caller's table, filters, columns and order
UserQueryKinds == {"select", "count", "data"}

\* statement i of the call runs on a session whose timeout the statement
\* before it has set
TimeoutSetBefore(i) ==
    /\ i > 1
    /\ log[i - 1].kind = "set_timeout"
    /\ log[i - 1].outcome = "ok"
    /\ log[i - 1].backend = log[i].backend

\* C26: in every exposed operation that runs a user-supplied query, a
\* statement timeout is set on the session before the query is executed on
\* that connection; no user-supplied query is executed on a connection whose
\* timeout has not been set in that call.
C26_TimeoutBeforeQuery ==
    \A i \in 1..Len(log) :
        log[i].kind \in UserQueryKinds => TimeoutSetBefore(i)

---------------------------------------------------------------------------
(* create_campaign_from_query: the order of the backend steps *)

\* the place of a backend step in the sequence of the handler
StepRank(kind) ==
    CASE kind = "links" -> 1
      [] kind = "skills" -> 2
      [] kind = "count" -> 3
      [] kind = "campaign_insert" -> 4
      [] kind = "tx_insert" -> 5

\* the steps of the call so far come in the order of the handler, each at
\* most once, the routing lookup first, each after the one before it
\* succeeded
StepsInOrder ==
    /\ \A i \in 1..Len(log) : log[i].kind \in
          {"links", "skills", "count", "campaign_insert", "tx_insert"}
    /\ \A i, j \in 1..Len(log) :
          i < j => StepRank(log[i].kind) < StepRank(log[j].kind)
    /\ Len(log) > 0 => log[1].kind = "links"
    /\ \A i \in 2..Len(log) : log[i - 1].outcome = "ok"
    /\ \A i \in 1..Len(log) :
          StepRank(log[i].kind) > 3
             => StepRank(log[i - 1].kind) = StepRank(log[i].kind) - 1

\* statement i is a campaign INSERT of an accepted record, after a count
\* that was not zero
InsertAfterCount(i) ==
    /\ validate_campaign_insert(log[i].params).ok
    /\ \E j \in 1..(i - 1) :
          /\ log[j].kind = "count"
          /\ log[j].outcome = "ok"
          /\ RecordCount(log[j].fetched) # 0

\* statement i is a derived INSERT that writes the id a committed campaign
\* INSERT of the call returned
DerivedAfterCampaign(i) ==
    \E j \in 1..(i - 1) :
        /\ log[j].kind = "campaign_insert"
        /\ log[j].outcome = "ok"
        /\ Count(log[i].sql,
                 " SELECT " \o ToString(log[j].fetched.v) \o " AS CAMPAIGN_ID, ") = 1
        /\ \E c \in 1..Len(campaigns) :
              campaigns[c].campaign_id = log[j].fetched.v

\* the result reports the id of the committed campaign, and the rows the
\* call inserted carry it
ReportsCommittedId ==
    /\ CommittedCampaignIds = {result.value.campaign_id}
    /\ Cardinality(DerivedRowsOf(result.value.campaign_id))
          = result.value.records_inserted

\* C27: in every execution of create_campaign_from_query the backend steps
\* occur only in the order routing lookup, optional skill lookup, count,
\* campaign INSERT, derived INSERT, each at most once; the campaign INSERT is
\* executed only after the count returned a non-zero value and
\* validate_campaign_insert accepted the record; the derived INSERT is
\* executed only after the campaign INSERT has committed and returned the new
\* campaign id, which is the id written into the derived rows and reported
\* in the result.
C27_StepOrder ==
    /\ StepsInOrder
    /\ \A i \in 1..Len(log) :
          /\ log[i].kind = "campaign_insert" => InsertAfterCount(i)
          /\ log[i].kind = "tx_insert" => DerivedAfterCampaign(i)
    /\ ReturnedSuccess => ReportsCommittedId

\* a call that went through all five steps and returned success
C27_Witness ==
    /\ ReturnedSuccess
    /\ Len(log) = 5
    /\ log[2].kind = "skills"
    /\ log[5].kind = "tx_insert"
    /\ result.value.records_inserted > 0

---------------------------------------------------------------------------
(* create_campaign_from_query: the count and the source select *)

\* the select under the COUNT(*) of a count statement
Counted(sql) == SubSeq(sql, 23, Len(sql) - 1)

\* the live transaction table of the dialing_db the routing lookup returned
LiveTable == "LVOUSR.TRANSACTION@" \o log[1].fetched.v[1].v

\* the statement reads the live table and no other table
LiveTableOnly(sql) ==
    /\ Count(sql, " FROM " \o LiveTable) = 1
    /\ Count(sql, " FROM LVOUSR.") = 1
    /\ Count(sql, "TRANSACTION_") = 0

\* derived INSERT i selects from the select the count statement j counted,
\* with the same parameters
SameSelect(i, j) ==
    /\ SubSeq(log[j].sql, 1, 22) = "SELECT COUNT(*) FROM ("
    /\ Count(log[i].sql, Counted(log[j].sql)) = 1
    /\ log[i].params = log[j].params
    /\ LiveTableOnly(Counted(log[j].sql))
    /\ Count(log[i].sql, " WHERE ") = Count(log[j].sql, " WHERE ")
    /\ Count(log[i].sql, " FROM LVOUSR.") = 1

---------------------------------------------------------------------------
(* The filter translators: placeholders and parameters *)

\* a translator has been applied to a filter with no malformed entry and
\* has given its predicate
TranslatedValid ==
    /\ TranslatedFilter
    /\ \A i \in 1..Len(args.filters.v) :
          ~Malformed(args.tool, args.filters.v[i])
    /\ result.k = "return"

\* the placeholders the entry's operator calls for
Contribution(op, operand) ==
    CASE op \in {"in", "not_in"} ->
            (IF IsListOrTuple(operand) THEN Len(operand.v) ELSE 1)
      [] op = "between" -> 2
      [] op \in {"is_null", "is_not_null"} -> 0
      [] OTHER -> 1

\* the placeholders the entries of a filter call for
RECURSIVE Contributions(_)
Contributions(items) ==
    IF Len(items) = 0 THEN 0
    ELSE Contribution(GivenAs(items[1][2]).op, GivenAs(items[1][2]).operand)
            + Contributions(Tail(items))

\* the first place where `sub` occurs in `s`
FirstAt(s, sub) ==
    CHOOSE i \in 1..(Len(s) - Len(sub) + 1) :
        /\ SubSeq(s, i, i + Len(sub) - 1) = sub
        /\ \A j \in 1..(i - 1) : SubSeq(s, j, j + Len(sub) - 1) # sub

\* the binds of the predicate are p1..pk in the order they appear, and the
\* parameter map has these k keys
NamedBinds(sql, params, k) ==
    /\ Len(params.v) = k
    /\ Count(sql, ":p") = k
    /\ \A i \in 1..k :
          /\ params.v[i][1] = "p" \o ToString(i)
          /\ Count(sql, ":p" \o ToString(i)) = 1
          /\ i < k => FirstAt(sql, ":p" \o ToString(i))
                         < FirstAt(sql, ":p" \o ToString(i + 1))

\* C29: for every valid filter the placeholders and the parameters of the
\* predicate correspond one to one: in and not_in contribute one placeholder
\* per element, between two, is_null and is_not_null none, every other
\* operator one; for Postgres the number of %s equals the length of the
\* parameter list, for Oracle the binds are p1..pk in order of appearance and
\* the parameter map has exactly those k keys.
C29_PlaceholdersMatchParams ==
    TranslatedValid =>
        IF args.tool = "tx_validate_filters"
        THEN NamedBinds(result.value.sql, result.value.params,
                        Contributions(args.filters.v))
        ELSE /\ Count(result.value.sql, "%s") = Len(result.value.params)
             /\ Len(result.value.params) = Contributions(args.filters.v)

---------------------------------------------------------------------------
(* create_campaign_from_query: what a result says *)

\* the call is over and returned a result
ReturnedResult == pc = "done" /\ result.k = "return"

\* a statement of this kind was executed and committed in the call
Committed(kind) ==
    \E i \in 1..Len(log) : log[i].kind = kind /\ log[i].outcome = "ok"

\* C30: every result returned by create_campaign_from_query is consistent
\* with what was executed: success=true is returned only when the campaign
\* INSERT and the derived INSERT were both executed and committed, and then
\* the result carries campaign_id and records_found > 0; every result with
\* success=false carries no campaign_id and was returned before any campaign
\* INSERT was executed.
C30_ResultConsistent ==
    ReturnedResult =>
        IF result.value.success
        THEN /\ Committed("campaign_insert")
             /\ Committed("tx_insert")
             /\ "campaign_id" \in DOMAIN result.value
             /\ \E c \in 1..Len(campaigns) :
                   campaigns[c].campaign_id = result.value.campaign_id
             /\ result.value.records_found > 0
        ELSE /\ "campaign_id" \notin DOMAIN result.value
             /\ ~Executed("campaign_insert")
             /\ ~Executed("tx_insert")

\* a failure returned after the count, and before any INSERT
C30_Witness ==
    /\ ReturnedResult
    /\ result.value.success = FALSE
    /\ Committed("count")
    /\ RecordCount(log[Len(log)].fetched) > 0

====
